---- MODULE Spec2Model ----
(***************************************************************************)
(* Announcement filtering and ranking of AirtableTool                      *)
(* (src/src/ai_analysis/tools/airtable_tool.py) with the date helpers of   *)
(* DateUtils (src/src/utils/date_utils.py).                                *)
(*                                                                         *)
(* A Python str is a sequence of one-character strings, so that lower(),   *)
(* strip(), split() and the substring test `in` are computed character by  *)
(* character.  Optional[T] is a sequence of length 0 (None) or 1.          *)
(***************************************************************************)
EXTENDS Integers, Sequences, FiniteSets, TLC

(* ------------------------------ bounds --------------------------------- *)

\* Largest number of records the Airtable table holds.
MaxRecords == 2

(* --------------------------- Python values ----------------------------- *)

None == <<>>

Some(x) == <<x>>

IsNone(o) == Len(o) = 0

Val(o) == o[1]

\* Truth value of an Optional[str]: None and "" are falsy.
Truthy(o) == Len(o) = 1 /\ Len(o[1]) > 0

\* F applied to the value of x.  TLC evaluates the argument of an operator
\* anew at every use; a bound variable holds a value.
Apply(F(_), x) == CHOOSE v \in {F(r) : r \in {x}} : TRUE

(* ------------------------------ str ------------------------------------ *)

Whitespace == {" ", "\t", "\n"}

UpperToLower ==
  ("A" :> "a") @@ ("B" :> "b") @@ ("C" :> "c") @@ ("D" :> "d") @@ ("E" :> "e") @@ ("F" :> 
  "f") @@ ("G" :> "g") @@ ("H" :> "h") @@ ("I" :> "i") @@ ("J" :> "j") @@ ("K" :> "k") @@ 
  ("L" :> "l") @@ ("M" :> "m") @@ ("N" :> "n") @@ ("O" :> "o") @@ ("P" :> "p") @@ ("Q" :> 
  "q") @@ ("R" :> "r") @@ ("S" :> "s") @@ ("T" :> "t") @@ ("U" :> "u") @@ ("V" :> "v") @@ 
  ("W" :> "w") @@ ("X" :> "x") @@ ("Y" :> "y") @@ ("Z" :> "z")

UpperLetters == DOMAIN UpperToLower

LowerChar(c) == IF c \in UpperLetters THEN UpperToLower[c] ELSE c

\* str.lower()
Lower(s) == Apply(LAMBDA t : [i \in 1..Len(t) |-> LowerChar(t[i])], s)

\* str.lstrip()
\* The position of the first character of s from i on that is no white
\* space; Len(s) + 1 when there is none.
RECURSIVE SkipSpace(_, _)
SkipSpace(s, i) ==
  IF i <= Len(s) /\ s[i] \in Whitespace THEN SkipSpace(s, i + 1) ELSE i

\* The position of the last character of s up to j that is no white space;
\* 0 when there is none.
RECURSIVE SkipSpaceBack(_, _)
SkipSpaceBack(s, j) ==
  IF j >= 1 /\ s[j] \in Whitespace THEN SkipSpaceBack(s, j - 1) ELSE j

\* str.strip()
Strip(s) ==
  Apply(LAMBDA t : SubSeq(t, SkipSpace(t, 1), SkipSpaceBack(t, Len(t))), s)

\* s.startswith(p) at offset i (1-based)
MatchAt(p, s, i) ==
  /\ i + Len(p) - 1 <= Len(s)
  /\ \A k \in 1..Len(p) : s[i + k - 1] = p[k]

\* The Python test `p in s` on strings: p occurs as a contiguous substring.
Contains(p, s) ==
  \E pp \in {p}, ss \in {s} :
    \E i \in 1..(Len(ss) - Len(pp) + 1) : MatchAt(pp, ss, i)

\* str.split() without arguments: the maximal runs of non-whitespace.
\* The end of the word of s that position j is in.
RECURSIVE WordEnd(_, _)
WordEnd(s, j) ==
  IF j < Len(s) /\ s[j + 1] \notin Whitespace THEN WordEnd(s, j + 1) ELSE j

RECURSIVE SplitFrom(_, _)
SplitFrom(s, i) ==
  \* i is evaluated once: the start of the next word
  Apply(LAMBDA start :
          IF start > Len(s) THEN <<>>
          ELSE Apply(LAMBDA end :
                       <<SubSeq(s, start, end)>> \o SplitFrom(s, end + 1),
                     WordEnd(s, start)),
        SkipSpace(s, i))

Split(s) == Apply(LAMBDA t : SplitFrom(t, 1), s)

\* ' '.join(words)
RECURSIVE Join(_)
Join(words) ==
  IF Len(words) = 0 THEN <<>>
  ELSE IF Len(words) = 1 THEN words[1]
  ELSE words[1] \o <<" ">> \o Join(Tail(words))

(* ----------------------- relevance scoring ----------------------------- *)

STOP_WORDS ==
  {
    <<"a">>, <<"a", "n">>, <<"a", "n", "d">>, <<"a", "r", "e">>, <<"a", "s">>, <<"a", "t">>,
    <<"b", "e">>, <<"b", "y">>, <<"f", "o", "r">>, <<"f", "r", "o", "m">>, <<"h", "a", "s">>,
    <<"h", "e">>, <<"i", "n">>, <<"i", "s">>, <<"i", "t">>, <<"i", "t", "s">>, <<"o", "f">>,
    <<"o", "n">>, <<"t", "h", "a", "t">>, <<"t", "h", "e">>, <<"t", "o">>, <<"w", "a", "s">>,
    <<"w", "i", "l", "l">>, <<"w", "i", "t", "h">>, <<"t", "h", "e">>, <<"t", "h", "i", "s">>,
    <<"b", "u", "t">>, <<"t", "h", "e", "y">>, <<"h", "a", "v", "e">>, <<"h", "a", "d">>,
    <<"w", "h", "a", "t">>, <<"s", "a", "i", "d">>, <<"e", "a", "c", "h">>,
    <<"w", "h", "i", "c", "h">>, <<"s", "h", "e">>, <<"d", "o">>, <<"h", "o", "w">>,
    <<"t", "h", "e", "i", "r">>, <<"i", "f">>, <<"u", "p">>, <<"o", "u", "t">>,
    <<"m", "a", "n", "y">>, <<"t", "h", "e", "n">>, <<"t", "h", "e", "m">>,
    <<"t", "h", "e", "s", "e">>, <<"s", "o">>, <<"s", "o", "m", "e">>, <<"h", "e", "r">>,
    <<"w", "o", "u", "l", "d">>, <<"m", "a", "k", "e">>, <<"l", "i", "k", "e">>,
    <<"i", "n", "t", "o">>, <<"h", "i", "m">>, <<"t", "i", "m", "e">>, <<"t", "w", "o">>,
    <<"m", "o", "r", "e">>, <<"g", "o">>, <<"n", "o">>, <<"w", "a", "y">>,
    <<"c", "o", "u", "l", "d">>, <<"m", "y">>, <<"t", "h", "a", "n">>,
    <<"f", "i", "r", "s", "t">>, <<"b", "e", "e", "n">>, <<"c", "a", "l", "l">>,
    <<"w", "h", "o">>, <<"o", "i", "l">>, <<"s", "i", "t">>, <<"n", "o", "w">>,
    <<"f", "i", "n", "d">>, <<"d", "o", "w", "n">>, <<"d", "a", "y">>, <<"d", "i", "d">>,
    <<"g", "e", "t">>, <<"c", "o", "m", "e">>, <<"m", "a", "d", "e">>, <<"m", "a", "y">>,
    <<"p", "a", "r", "t">>
  }

NotStopWord(word) == word \notin STOP_WORDS

IsKeyword(word) == word \notin STOP_WORDS /\ Len(word) > 2

\* ' '.join([word for word in search_text_lower.split() if word not in STOP_WORDS])
CleanPhrase(search_text_lower) ==
  Join(SelectSeq(Split(search_text_lower), NotStopWord))

\* [word for word in search_text_lower.split()
\*  if word not in STOP_WORDS and len(word) > 2]
SearchKeywords(search_text_lower) ==
  SelectSeq(Split(search_text_lower), IsKeyword)

\* The loop of the multiple-keyword tier.  keyword_matches grows by 1 for a
\* keyword found in combined_text and by a further 0.5 when it is in the
\* title; the count is kept in halves (2 = one whole match) so that the
\* arithmetic stays exact.
RECURSIVE KeywordMatchesHalves(_, _, _)
KeywordMatchesHalves(search_keywords, combined_text, title) ==
  IF Len(search_keywords) = 0 THEN 0
  ELSE (IF Contains(search_keywords[1], combined_text)
        THEN 2 + (IF Contains(search_keywords[1], title) THEN 1 ELSE 0)
        ELSE 0)
       + KeywordMatchesHalves(Tail(search_keywords), combined_text, title)

\* The loop of the single-keyword tier: the first keyword found in
\* combined_text decides the score, then `break`.
RECURSIVE FirstKeywordScore(_, _, _)
FirstKeywordScore(search_keywords, combined_text, title) ==
  IF Len(search_keywords) = 0 THEN 0
  ELSE IF Contains(search_keywords[1], combined_text)
       THEN 20 + (IF Contains(search_keywords[1], title) THEN 10 ELSE 0)
       ELSE FirstKeywordScore(Tail(search_keywords), combined_text, title)

\* Which branch of the if/elif chain is taken.
ScoreTier(combined_text, title, original_phrase, clean_phrase, search_keywords) ==
  IF Contains(original_phrase, combined_text) THEN "exact"
  ELSE IF Len(clean_phrase) > 0 /\ Contains(clean_phrase, combined_text) THEN "clean"
  ELSE IF Len(search_keywords) > 1 THEN "multi"
  ELSE "single"

\* The multiple-keyword score with keyword_matches rounded down to whole
\* matches before the bonus is taken.
MultiKeywordScoreRounded(halves) ==
  Apply(LAMBDA h : IF h >= 4 THEN 60 + 10 * ((h \div 2) - 2) ELSE 0, halves)

\* base_score + bonus_score = 60 + (keyword_matches - 2) * 10 when
\* keyword_matches >= 2, with keyword_matches in halves:
\* 10 * (h / 2 - 2) = 5 * (h - 4).
MultiKeywordScore(halves) ==
  Apply(LAMBDA h : IF h >= 4 THEN 60 + 5 * (h - 4) ELSE 0, halves)

\* The scorer with `if` in place of each `elif`: every tier that matches
\* adds its points.
_calculate_relevance_score_additive(combined_text, title, original_phrase, clean_phrase, search_keywords) ==
  (IF Contains(original_phrase, combined_text)
   THEN 100 + (IF Contains(original_phrase, title) THEN 50 ELSE 0)
   ELSE 0)
  + (IF Len(clean_phrase) > 0 /\ Contains(clean_phrase, combined_text)
     THEN 80 + (IF Contains(clean_phrase, title) THEN 40 ELSE 0)
     ELSE 0)
  + (IF Len(search_keywords) > 1
     THEN MultiKeywordScore(
            KeywordMatchesHalves(search_keywords, combined_text, title))
     ELSE FirstKeywordScore(search_keywords, combined_text, title))

\* The scorer without the test `clean_phrase and`: an empty clean phrase is
\* a substring of every text.
_calculate_relevance_score_unguarded(combined_text, title, original_phrase, clean_phrase, search_keywords) ==
  IF Contains(original_phrase, combined_text)
  THEN 100 + (IF Contains(original_phrase, title) THEN 50 ELSE 0)
  ELSE IF Contains(clean_phrase, combined_text)
  THEN 80 + (IF Contains(clean_phrase, title) THEN 40 ELSE 0)
  ELSE IF Len(search_keywords) > 1
  THEN MultiKeywordScore(
         KeywordMatchesHalves(search_keywords, combined_text, title))
  ELSE FirstKeywordScore(search_keywords, combined_text, title)

_calculate_relevance_score(combined_text, title, original_phrase, clean_phrase, search_keywords) ==
  IF Contains(original_phrase, combined_text)
  THEN 100 + (IF Contains(original_phrase, title) THEN 50 ELSE 0)
  ELSE IF Len(clean_phrase) > 0 /\ Contains(clean_phrase, combined_text)
  THEN 80 + (IF Contains(clean_phrase, title) THEN 40 ELSE 0)
  ELSE IF Len(search_keywords) > 1
  THEN MultiKeywordScore(
         KeywordMatchesHalves(search_keywords, combined_text, title))
  ELSE FirstKeywordScore(search_keywords, combined_text, title)

(* ------------------------ announcement records ------------------------- *)

\* The fields of an Airtable record the filters read.  A field that is
\* missing reads as "" in every place the pipeline uses it
\* (announcement.get(k, "") and `if sent_time_str:`), so the empty string
\* stands for both.
Field(announcement, k) == announcement[k]

\* combined_text = f"{title} {description} {sent_by}"
CombinedText(announcement) ==
  Lower(Field(announcement, "Title")) \o <<" ">>
    \o Lower(Field(announcement, "Description")) \o <<" ">>
    \o Lower(Field(announcement, "SentByUser"))

\* The search terms of one call: <<original_phrase, clean_phrase,
\* search_keywords>> of the stripped, lower-cased search text.
SearchTerms(search_text_lower) ==
  Apply(LAMBDA t : <<t, CleanPhrase(t), SearchKeywords(t)>>, search_text_lower)

\* The body of the scoring loop: the score of one announcement.
Score(announcement, terms) ==
  Apply(LAMBDA t : _calculate_relevance_score(t[1], t[2], t[3][1], t[3][2], t[3][3]),
        <<CombinedText(announcement), Lower(Field(announcement, "Title")), terms>>)

\* The score the text stage gives an announcement for a search text.
ScoreOf(announcement, search_text) ==
  Score(announcement, SearchTerms(Strip(Lower(search_text))))

\* The scoring loop with `score >= 0` for `score > 0`: every announcement
\* is kept.
RECURSIVE ScoredAnnouncementsAll(_, _)
ScoredAnnouncementsAll(announcements, terms) ==
  IF Len(announcements) = 0 THEN <<>>
  ELSE <<[announcement |-> announcements[1],
          score |-> Score(announcements[1], terms)]>>
       \o ScoredAnnouncementsAll(Tail(announcements), terms)

\* The scoring loop: (announcement, score) pairs of the announcements with
\* score > 0, in input order.
RECURSIVE ScoredAnnouncements(_, _)
ScoredAnnouncements(announcements, terms) ==
  IF Len(announcements) = 0 THEN <<>>
  ELSE Apply(LAMBDA score :
               IF score > 0
               THEN <<[announcement |-> announcements[1], score |-> score]>>
                    \o ScoredAnnouncements(Tail(announcements), terms)
               ELSE ScoredAnnouncements(Tail(announcements), terms),
             Score(announcements[1], terms))

\* An unstable sort: one more pair goes in front of the pairs of equal
\* score.
RECURSIVE InsertByScoreUnstable(_, _)
InsertByScoreUnstable(sorted, pair) ==
  IF Len(sorted) = 0 THEN <<pair>>
  ELSE IF sorted[1].score > pair.score
       THEN <<sorted[1]>> \o InsertByScoreUnstable(Tail(sorted), pair)
       ELSE <<pair>> \o sorted

\* Where list.sort(key=score, reverse=True) puts one more pair: behind
\* every pair already placed whose score is at least as high.
RECURSIVE InsertByScore(_, _)
InsertByScore(sorted, pair) ==
  IF Len(sorted) = 0 THEN <<pair>>
  ELSE IF sorted[1].score >= pair.score
       THEN <<sorted[1]>> \o InsertByScore(Tail(sorted), pair)
       ELSE <<pair>> \o sorted

\* scored_announcements.sort(key=lambda x: x[1], reverse=True): the pairs
\* are placed one by one, in list order.
RECURSIVE SortFrom(_, _)
SortFrom(sorted, pairs) ==
  IF Len(pairs) = 0 THEN sorted
  ELSE Apply(LAMBDA placed : SortFrom(placed, Tail(pairs)),
             InsertByScore(sorted, pairs[1]))

SortByScore(pairs) == Apply(LAMBDA t : SortFrom(<<>>, t), pairs)

\* [announcement for announcement, score in scored_announcements]
AnnouncementsOf(pairs) ==
  Apply(LAMBDA t : [i \in 1..Len(t) |-> t[i].announcement], pairs)

\* The text stage without .lower() on the search text.
_search_and_rank_by_text_cased(announcements, search_text) ==
  Apply(LAMBDA t :
          IF Len(t[2][1]) = 0
          THEN t[1]
          ELSE AnnouncementsOf(SortByScore(ScoredAnnouncements(t[1], t[2]))),
        <<announcements, SearchTerms(Strip(search_text))>>)

_search_and_rank_by_text(announcements, search_text) ==
  Apply(LAMBDA t :
          IF Len(t[2][1]) = 0
          THEN t[1]
          ELSE AnnouncementsOf(SortByScore(ScoredAnnouncements(t[1], t[2]))),
        <<announcements, SearchTerms(Strip(Lower(search_text)))>>)

(* --------------------------- sender filter ----------------------------- *)

\* The loop of _filter_by_sender.
RECURSIVE SenderLoop(_, _)
SenderLoop(announcements, sender_name_lower) ==
  IF Len(announcements) = 0 THEN <<>>
  ELSE IF Contains(sender_name_lower,
                   Lower(Field(announcements[1], "SentByUser")))
       THEN <<announcements[1]>>
            \o SenderLoop(Tail(announcements), sender_name_lower)
       ELSE SenderLoop(Tail(announcements), sender_name_lower)

\* The sender filter without .lower() on sender_name.
_filter_by_sender_cased(announcements, sender_name) ==
  Apply(LAMBDA t : SenderLoop(t[1], t[2]), <<announcements, sender_name>>)

_filter_by_sender(announcements, sender_name) ==
  Apply(LAMBDA t : SenderLoop(t[1], t[2]), <<announcements, Lower(sender_name)>>)

(* ------------------------------ datetime ------------------------------- *)

\* A datetime: civil fields plus `aware`, TRUE when tzinfo is UTC and FALSE
\* for a naive value.  Every aware value of this model is in UTC.
DateTime(y, mo, d, h, mi, s, us, aw) ==
  [year |-> y, month |-> mo, day |-> d, hour |-> h, minute |-> mi,
   second |-> s, microsecond |-> us, aware |-> aw]

IsLeap(y) == (y % 4 = 0 /\ y % 100 # 0) \/ y % 400 = 0

\* calendar.monthrange(y, m)[1]
DaysInMonth(y, m) ==
  IF m = 2 THEN (IF IsLeap(y) THEN 29 ELSE 28)
  ELSE IF m \in {4, 6, 9, 11} THEN 30 ELSE 31

\* Days since 1970-01-01 of a civil date (proleptic Gregorian).
DaysFromCivil(y, m, d) ==
  LET yy == IF m <= 2 THEN y - 1 ELSE y
      era == yy \div 400
      yoe == yy - era * 400
      mp == IF m > 2 THEN m - 3 ELSE m + 9
      doy == (153 * mp + 2) \div 5 + d - 1
      doe == yoe * 365 + yoe \div 4 - yoe \div 100 + doy
  IN  era * 146097 + doe - 719468

\* The civil date of a day number, as <<year, month, day>>.
CivilFromDays(z) ==
  LET zz == z + 719468
      era == zz \div 146097
      doe == zz - era * 146097
      yoe == (doe - doe \div 1460 + doe \div 36524 - doe \div 146096) \div 365
      doy == doe - (365 * yoe + yoe \div 4 - yoe \div 100)
      mp == (5 * doy + 2) \div 153
      d == doy - (153 * mp + 2) \div 5 + 1
      m == IF mp < 10 THEN mp + 3 ELSE mp - 9
      y == yoe + era * 400 + (IF m <= 2 THEN 1 ELSE 0)
  IN  <<y, m, d>>

\* dt + timedelta(days=n)
AddDays(dt, n) ==
  LET c == CivilFromDays(DaysFromCivil(dt.year, dt.month, dt.day) + n)
  IN  [dt EXCEPT !.year = c[1], !.month = c[2], !.day = c[3]]

\* datetime.weekday(): Monday is 0.
Weekday(dt) == (DaysFromCivil(dt.year, dt.month, dt.day) + 3) % 7

\* The order of two datetimes of the same awareness.
DtKey(dt) ==
  <<DaysFromCivil(dt.year, dt.month, dt.day),
    dt.hour * 3600 + dt.minute * 60 + dt.second,
    dt.microsecond>>

DtLess(a, b) ==
  \E ka \in {DtKey(a)}, kb \in {DtKey(b)} :
    \/ ka[1] < kb[1]
    \/ ka[1] = kb[1] /\ ka[2] < kb[2]
    \/ ka[1] = kb[1] /\ ka[2] = kb[2] /\ ka[3] < kb[3]

DtLeq(a, b) == ~DtLess(b, a)

\* dt.replace(hour=0, minute=0, second=0, microsecond=0)
StartOfDay(dt) ==
  [dt EXCEPT !.hour = 0, !.minute = 0, !.second = 0, !.microsecond = 0]

\* dt.replace(hour=23, minute=59, second=59, microsecond=999999)
EndOfDay(dt) ==
  [dt EXCEPT !.hour = 23, !.minute = 59, !.second = 59, !.microsecond = 999999]

\* dt.replace(tzinfo=dateutil.tz.UTC)
AsUTC(dt) == [dt EXCEPT !.aware = TRUE]

(* --------------------------- parsing of dates -------------------------- *)

DigitValue ==
  ("0" :> 0) @@ ("1" :> 1) @@ ("2" :> 2) @@ ("3" :> 3) @@ ("4" :> 4)
    @@ ("5" :> 5) @@ ("6" :> 6) @@ ("7" :> 7) @@ ("8" :> 8) @@ ("9" :> 9)

DigitChars == DOMAIN DigitValue

IsDigit(c) == c \in DigitChars

AllDigits(s) == \E t \in {s} : \A i \in 1..Len(t) : IsDigit(t[i])

\* The number the first n characters of s spell.
RECURSIVE IntUpTo(_, _)
IntUpTo(s, n) ==
  IF n = 0 THEN 0 ELSE 10 * IntUpTo(s, n - 1) + DigitValue[s[n]]

\* int(s) for a string of digits
IntOf(s) == Apply(LAMBDA t : IntUpTo(t, Len(t)), s)

\* "YYYY-MM-DD" naming a day of the calendar.
IsIsoDate(s) ==
  \E t \in {s} :
    /\ Len(t) = 10
    /\ t[5] = "-" /\ t[8] = "-"
    /\ AllDigits(SubSeq(t, 1, 4)) /\ AllDigits(SubSeq(t, 6, 7))
    /\ AllDigits(SubSeq(t, 9, 10))
    /\ \E y \in {IntOf(SubSeq(t, 1, 4))}, m \in {IntOf(SubSeq(t, 6, 7))} :
         /\ y >= 1
         /\ m \in 1..12
         /\ IntOf(SubSeq(t, 9, 10)) \in 1..DaysInMonth(y, m)

\* "HH:MM:SS"
IsClock(s) ==
  \E t \in {s} :
    /\ Len(t) = 8
    /\ t[3] = ":" /\ t[6] = ":"
    /\ AllDigits(SubSeq(t, 1, 2)) /\ AllDigits(SubSeq(t, 4, 5))
    /\ AllDigits(SubSeq(t, 7, 8))
    /\ IntOf(SubSeq(t, 1, 2)) <= 23
    /\ IntOf(SubSeq(t, 4, 5)) <= 59
    /\ IntOf(SubSeq(t, 7, 8)) <= 59

\* ".f" to ".ffffff": a fraction of a second
IsFraction(s) ==
  \E t \in {s} :
    /\ Len(t) \in 2..7
    /\ t[1] = "."
    /\ AllDigits(Tail(t))

\* The microseconds of a fraction ".fff": the digits padded to six places.
RECURSIVE PadMicros(_)
PadMicros(digits) ==
  IF Len(digits) >= 6 THEN IntOf(digits) ELSE PadMicros(Append(digits, "0"))

\* The parts of "YYYY-MM-DD" + sep + "HH:MM:SS" + rest, or None.
SplitIso(rest, zones) ==
  Apply(LAMBDA zone :
          Apply(LAMBDA frac :
                  IF Len(frac) = 0 \/ IsFraction(frac)
                  THEN Some([micros |-> IF Len(frac) = 0 THEN 0
                                        ELSE PadMicros(Tail(frac)),
                             zone |-> zone])
                  ELSE None,
                SubSeq(rest, 1, Len(rest) - Len(zone))),
        IF Len(rest) > 0 /\ rest[Len(rest)] \in zones
        THEN <<rest[Len(rest)]>> ELSE <<>>)

\* "YYYY-MM-DD" + sep + "HH:MM:SS" [+ fraction] [+ zone], sep in seps and
\* zone in zones; the parts as a record, or None.
IsoParts(s, seps, zones) ==
  Apply(LAMBDA t :
          IF Len(t) >= 19 /\ IsIsoDate(SubSeq(t, 1, 10)) /\ t[11] \in seps
             /\ IsClock(SubSeq(t, 12, 19))
          THEN Apply(LAMBDA tail :
                       IF IsNone(tail) THEN None
                       ELSE Some([date |-> SubSeq(t, 1, 10),
                                  clock |-> SubSeq(t, 12, 19),
                                  micros |-> Val(tail).micros,
                                  zone |-> Val(tail).zone]),
                     Apply(LAMBDA rest : SplitIso(rest, zones),
                           SubSeq(t, 20, Len(t))))
          ELSE None,
        s)

DateOf(s, aw) ==
  DateTime(IntOf(SubSeq(s, 1, 4)), IntOf(SubSeq(s, 6, 7)),
           IntOf(SubSeq(s, 9, 10)), 0, 0, 0, 0, aw)

DateTimeOf(parts) ==
  [DateOf(parts.date, Len(parts.zone) > 0) EXCEPT
     !.hour = IntOf(SubSeq(parts.clock, 1, 2)),
     !.minute = IntOf(SubSeq(parts.clock, 4, 5)),
     !.second = IntOf(SubSeq(parts.clock, 7, 8)),
     !.microsecond = parts.micros]

\* dateutil.parser.parse for the timestamp shapes of this model: an ISO date
\* (naive), or an ISO date and clock time with optional fraction, naive
\* without a zone and UTC with the suffix Z.  Any other string counts as
\* rejected; offsets other than Z are outside the modelled inputs.
DateutilParse(s) ==
  Apply(LAMBDA t :
          IF IsIsoDate(t) THEN Some(DateOf(t, FALSE))
          ELSE Apply(LAMBDA parts :
                       IF IsNone(parts) THEN None
                       ELSE Some(DateTimeOf(Val(parts))),
                     IsoParts(t, {"T", " "}, {"Z"})),
        s)

\* Every string of the modelled shapes that the explicit fallback formats
\* accept is already accepted by dateutil, so a string dateutil rejects ends
\* in `return None`.
_parse_sent_time(sent_time_str) ==
  Apply(LAMBDA t : IF Len(t) = 0 THEN None ELSE DateutilParse(t), sent_time_str)

\* datetime.fromisoformat on a lower-cased query: a date, or a date and a
\* clock time (naive).
FromIsoFormat(text) ==
  Apply(LAMBDA t :
          IF IsIsoDate(t) THEN Some(DateOf(t, FALSE))
          ELSE Apply(LAMBDA parts :
                       IF IsNone(parts) THEN None
                       ELSE Some(DateTimeOf(Val(parts))),
                     IsoParts(t, {"t", " "}, {})),
        text)

days ==
  <<<<"m", "o", "n", "d", "a", "y">>,
    <<"t", "u", "e", "s", "d", "a", "y">>,
    <<"w", "e", "d", "n", "e", "s", "d", "a", "y">>,
    <<"t", "h", "u", "r", "s", "d", "a", "y">>,
    <<"f", "r", "i", "d", "a", "y">>,
    <<"s", "a", "t", "u", "r", "d", "a", "y">>,
    <<"s", "u", "n", "d", "a", "y">>>>

\* days_ahead and days_behind: 7 instead of 0.
WeekOrDays(n) == Apply(LAMBDA d : IF d = 0 THEN 7 ELSE d, n)

\* The loop over the names of the week days: "next <day>" and "last <day>".
RECURSIVE NextLastWeekday(_, _, _)
NextLastWeekday(text, now, i) ==
  IF i > 6 THEN None
  ELSE IF Contains(<<"n", "e", "x", "t", " ">> \o days[i + 1], text)
       THEN Some(AddDays(StartOfDay(now), WeekOrDays((i - Weekday(now)) % 7)))
       ELSE IF Contains(<<"l", "a", "s", "t", " ">> \o days[i + 1], text)
            THEN Some(AddDays(StartOfDay(now),
                              0 - WeekOrDays((Weekday(now) - i) % 7)))
            ELSE NextLastWeekday(text, now, i + 1)

\* The length of the run of digits of s that starts at position i.
RECURSIVE DigitRun(_, _)
DigitRun(s, i) ==
  IF i <= Len(s) /\ IsDigit(s[i]) THEN 1 + DigitRun(s, i + 1) ELSE 0

\* The number of days one unit of (day|days|week|weeks|month|months) stands
\* for when it is at position i of s, else 0.
UnitDays(s, i) ==
  IF MatchAt(<<"d", "a", "y">>, s, i) THEN 1
  ELSE IF MatchAt(<<"w", "e", "e", "k">>, s, i) THEN 7
  ELSE IF MatchAt(<<"m", "o", "n", "t", "h">>, s, i) THEN 30
  ELSE 0

\* The unit of "<unit> ago" at position i of s, in days, else 0.
UnitAgoDays(s, i) ==
  IF \E u \in {<<"d", "a", "y", " ", "a", "g", "o">>,
                <<"d", "a", "y", "s", " ", "a", "g", "o">>} : MatchAt(u, s, i)
  THEN 1
  ELSE IF \E u \in {<<"w", "e", "e", "k", " ", "a", "g", "o">>,
                     <<"w", "e", "e", "k", "s", " ", "a", "g", "o">>} : MatchAt(u, s, i)
  THEN 7
  ELSE IF \E u \in {<<"m", "o", "n", "t", "h", " ", "a", "g", "o">>,
                     <<"m", "o", "n", "t", "h", "s", " ", "a", "g", "o">>} : MatchAt(u, s, i)
  THEN 30
  ELSE 0

\* re.match(r"in (\d+) (day|days|week|weeks|month|months)", text): the
\* offset in days, or None.
InDaysMatch(text) ==
  IF MatchAt(<<"i", "n", " ">>, text, 1)
  THEN Apply(LAMBDA n :
               IF n > 0 /\ MatchAt(<<" ">>, text, 4 + n)
                  /\ UnitDays(text, 5 + n) > 0
               THEN Some(IntOf(SubSeq(text, 4, 3 + n)) * UnitDays(text, 5 + n))
               ELSE None,
             DigitRun(text, 4))
  ELSE None

\* re.match(r"(\d+) (day|days|week|weeks|month|months) ago", text)
AgoDaysMatch(text) ==
  Apply(LAMBDA n :
          IF n > 0 /\ MatchAt(<<" ">>, text, 1 + n)
             /\ UnitAgoDays(text, 2 + n) > 0
          THEN Some(IntOf(SubSeq(text, 1, n)) * UnitAgoDays(text, 2 + n))
          ELSE None,
        DigitRun(text, 1))

\* The branches of parse_natural_language_date behind today, tomorrow and
\* yesterday.
RelativeDate(text, now) ==
  Apply(LAMBDA weekday :
          IF ~IsNone(weekday) THEN weekday
          ELSE Apply(LAMBDA ahead :
                       IF ~IsNone(ahead) THEN Some(AddDays(now, Val(ahead)))
                       ELSE Apply(LAMBDA ago :
                                    IF ~IsNone(ago)
                                    THEN Some(AddDays(now, 0 - Val(ago)))
                                    ELSE None,
                                  AgoDaysMatch(text)),
                     InDaysMatch(text)),
        NextLastWeekday(text, now, 0))

parse_natural_language_date(text0, now) ==
  Apply(LAMBDA text :
          IF text = <<"t", "o", "d", "a", "y">> THEN Some(StartOfDay(now))
          ELSE IF text = <<"t", "o", "m", "o", "r", "r", "o", "w">>
          THEN Some(AddDays(StartOfDay(now), 1))
          ELSE IF text = <<"y", "e", "s", "t", "e", "r", "d", "a", "y">>
          THEN Some(AddDays(StartOfDay(now), 0 - 1))
          ELSE RelativeDate(text, now),
        Strip(Lower(text0)))

\* DateUtils.parse_date_time: fromisoformat, then the strptime formats, then
\* the natural-language forms.  Of the strptime formats the modelled queries
\* can only meet "%Y-%m-%d" and its clock variants, which fromisoformat has
\* already taken.
parse_date_time(text, now) ==
  Apply(LAMBDA t :
          Apply(LAMBDA iso :
                  IF ~IsNone(iso) THEN iso
                  ELSE parse_natural_language_date(t, now),
                FromIsoFormat(t)),
        text)

\* A period of relative_periods with "_" read as " ": get_date_range takes
\* either spelling in each of its branches.
Spaced(period) ==
  Apply(LAMBDA p : [i \in 1..Len(p) |-> IF p[i] = "_" THEN " " ELSE p[i]],
        period)

relative_periods ==
  <<<<"t", "o", "d", "a", "y">>,
    <<"y", "e", "s", "t", "e", "r", "d", "a", "y">>,
    <<"t", "h", "i", "s", " ", "w", "e", "e", "k">>,
    <<"l", "a", "s", "t", " ", "w", "e", "e", "k">>,
    <<"n", "e", "x", "t", " ", "w", "e", "e", "k">>,
    <<"t", "h", "i", "s", " ", "m", "o", "n", "t", "h">>,
    <<"l", "a", "s", "t", " ", "m", "o", "n", "t", "h">>,
    <<"n", "e", "x", "t", " ", "m", "o", "n", "t", "h">>,
    <<"t", "h", "i", "s", " ", "y", "e", "a", "r">>,
    <<"l", "a", "s", "t", " ", "y", "e", "a", "r">>,
    <<"t", "h", "i", "s", "_", "w", "e", "e", "k">>,
    <<"l", "a", "s", "t", "_", "w", "e", "e", "k">>,
    <<"n", "e", "x", "t", "_", "w", "e", "e", "k">>,
    <<"t", "h", "i", "s", "_", "m", "o", "n", "t", "h">>,
    <<"l", "a", "s", "t", "_", "m", "o", "n", "t", "h">>,
    <<"n", "e", "x", "t", "_", "m", "o", "n", "t", "h">>,
    <<"t", "h", "i", "s", "_", "y", "e", "a", "r">>,
    <<"l", "a", "s", "t", "_", "y", "e", "a", "r">>>>
\* The Monday 00:00 of the week k days from now.
WeekStart(now, k) == Apply(LAMBDA n : StartOfDay(AddDays(n, k - Weekday(n))), now)

\* start_date of "next_month".
NextMonthStart(now) ==
  IF now.month = 12
  THEN StartOfDay([now EXCEPT !.year = now.year + 1, !.month = 1, !.day = 1])
  ELSE StartOfDay([now EXCEPT !.month = now.month + 1, !.day = 1])

\* start_date + timedelta(days=6), at 23:59:59.999999
WeekOf(start_date) ==
  Apply(LAMBDA s : <<s, EndOfDay(AddDays(s, 6))>>, start_date)

\* The last day of the month of start_date, at 23:59:59.999999
MonthOf(start_date) ==
  Apply(LAMBDA s : <<s, EndOfDay([s EXCEPT !.day = DaysInMonth(s.year, s.month)])>>,
        start_date)

\* The naive start_date and end_date of get_date_range.
NaiveRange(p, now) ==
  CASE p = <<"t", "o", "d", "a", "y">> -> <<StartOfDay(now), EndOfDay(now)>>
    [] p = <<"y", "e", "s", "t", "e", "r", "d", "a", "y">> ->
         Apply(LAMBDA yesterday : <<StartOfDay(yesterday), EndOfDay(yesterday)>>,
               AddDays(now, 0 - 1))
    [] p = <<"t", "h", "i", "s", " ", "w", "e", "e", "k">> -> WeekOf(WeekStart(now, 0))
    [] p = <<"l", "a", "s", "t", " ", "w", "e", "e", "k">> -> WeekOf(WeekStart(now, 0 - 7))
    [] p = <<"n", "e", "x", "t", " ", "w", "e", "e", "k">> -> WeekOf(WeekStart(now, 7))
    [] p = <<"t", "h", "i", "s", " ", "m", "o", "n", "t", "h">> -> MonthOf(StartOfDay([now EXCEPT !.day = 1]))
    [] p = <<"l", "a", "s", "t", " ", "m", "o", "n", "t", "h">> ->
         Apply(LAMBDA last_day_prev_month :
                 <<StartOfDay([last_day_prev_month EXCEPT !.day = 1]),
                   EndOfDay(last_day_prev_month)>>,
               AddDays(StartOfDay([now EXCEPT !.day = 1]), 0 - 1))
    [] p = <<"n", "e", "x", "t", " ", "m", "o", "n", "t", "h">> -> MonthOf(NextMonthStart(now))
    [] p = <<"t", "h", "i", "s", " ", "y", "e", "a", "r">> ->
         <<StartOfDay([now EXCEPT !.month = 1, !.day = 1]),
           EndOfDay([now EXCEPT !.month = 12, !.day = 31])>>
    [] p = <<"l", "a", "s", "t", " ", "y", "e", "a", "r">> ->
         <<StartOfDay([now EXCEPT !.year = now.year - 1, !.month = 1, !.day = 1]),
           EndOfDay([now EXCEPT !.year = now.year - 1, !.month = 12, !.day = 31])>>
    [] OTHER -> <<StartOfDay(now), EndOfDay(now)>>

\* DateUtils.get_date_range(period, as_timezone_aware): <<start, end>>.
get_date_range(period, as_timezone_aware, now) ==
  Apply(LAMBDA range :
          IF as_timezone_aware THEN <<AsUTC(range[1]), AsUTC(range[2])>>
          ELSE range,
        NaiveRange(Spaced(period), now))

\* extract_date_time_range with the single date/time itself as the start
\* of the range, not the start of its day.
extract_date_time_range_from_instant(text0, now) ==
  Apply(LAMBDA text :
          IF \E i \in 1..Len(relative_periods) : text = relative_periods[i]
          THEN Apply(LAMBDA date_range :
                       <<Some(date_range[1]), Some(date_range[2])>>,
                     get_date_range(text, FALSE, now))
          ELSE Apply(LAMBDA single_dt :
                       IF ~IsNone(single_dt)
                       THEN <<Some(Val(single_dt)),
                              Some(EndOfDay(Val(single_dt)))>>
                       ELSE <<None, None>>,
                     parse_date_time(text, now)),
        Strip(Lower(text0)))

\* DateUtils.extract_date_time_range: <<start, end>> of Optional[datetime].
\* The patterns "from X to Y", "between X and Y" and "on X at Y" need the
\* words "from", "between" or "on" followed by white space; no modelled
\* query has them, and the function goes on to the single date.
extract_date_time_range(text0, now) ==
  Apply(LAMBDA text :
          IF \E i \in 1..Len(relative_periods) : text = relative_periods[i]
          THEN Apply(LAMBDA date_range :
                       <<Some(date_range[1]), Some(date_range[2])>>,
                     get_date_range(text, FALSE, now))
          ELSE Apply(LAMBDA single_dt :
                       IF ~IsNone(single_dt)
                       THEN <<Some(StartOfDay(Val(single_dt))),
                              Some(EndOfDay(Val(single_dt)))>>
                       ELSE <<None, None>>,
                     parse_date_time(text, now)),
        Strip(Lower(text0)))

(* ---------------------------- date filter ------------------------------ *)

\* calendar.month_name, lower-cased, January first.
month_names ==
  <<
    <<"j", "a", "n", "u", "a", "r", "y">>, <<"f", "e", "b", "r", "u", "a", "r", "y">>,
    <<"m", "a", "r", "c", "h">>, <<"a", "p", "r", "i", "l">>, <<"m", "a", "y">>,
    <<"j", "u", "n", "e">>, <<"j", "u", "l", "y">>, <<"a", "u", "g", "u", "s", "t">>,
    <<"s", "e", "p", "t", "e", "m", "b", "e", "r">>, <<"o", "c", "t", "o", "b", "e", "r">>,
    <<"n", "o", "v", "e", "m", "b", "e", "r">>, <<"d", "e", "c", "e", "m", "b", "e", "r">>
  >>
\* A filter's outcome: the list it returns, or `raised` when it ends in an
\* exception.
Returned(list) == [raised |-> FALSE, announcements |-> list]

Raised == [raised |-> TRUE, announcements |-> <<>>]

\* InRange with an exception for an announcement whose SentTime is missing
\* or does not parse.
InRangeUnparsedRaises(announcement, start_date, end_date) ==
  Apply(LAMBDA sent_time :
          IF IsNone(sent_time) THEN "raise"
          ELSE IF ~Val(sent_time).aware THEN "raise"
          ELSE IF DtLeq(start_date, Val(sent_time))
                  /\ DtLess(Val(sent_time), end_date)
          THEN "in"
          ELSE "out",
        _parse_sent_time(Field(announcement, "SentTime")))

\* start_date <= sent_time < end_date for one announcement: "in", "out", or
\* "raise" for the TypeError of comparing the aware bounds with a naive
\* sent_time.  An announcement without SentTime, or with one that does not
\* parse, is "out".
InRange(announcement, start_date, end_date) ==
  Apply(LAMBDA sent_time :
          IF IsNone(sent_time) THEN "out"
          ELSE IF ~Val(sent_time).aware THEN "raise"
          ELSE IF DtLeq(start_date, Val(sent_time))
                  /\ DtLess(Val(sent_time), end_date)
          THEN "in"
          ELSE "out",
        _parse_sent_time(Field(announcement, "SentTime")))

\* The loop of _filter_by_date_range.
RECURSIVE DateRangeLoop(_, _, _)
DateRangeLoop(announcements, start_date, end_date) ==
  IF Len(announcements) = 0 THEN Returned(<<>>)
  ELSE Apply(LAMBDA verdict :
               IF verdict = "raise" THEN Raised
               ELSE Apply(LAMBDA rest :
                            IF rest.raised THEN Raised
                            ELSE IF verdict = "in"
                            THEN Returned(<<announcements[1]>> \o rest.announcements)
                            ELSE rest,
                          DateRangeLoop(Tail(announcements), start_date, end_date)),
             InRange(announcements[1], start_date, end_date))

_filter_by_date_range(announcements, start_date, end_date) ==
  Apply(LAMBDA bounds : DateRangeLoop(announcements, bounds[1], bounds[2]),
        <<AsUTC(start_date), AsUTC(end_date)>>)

\* start_date and end_date of _filter_by_month, with the end of December
\* left in the current year.
MonthRangeSameYear(month_num, now) ==
  Apply(LAMBDA current_year :
          <<DateTime(current_year, month_num, 1, 0, 0, 0, 0, TRUE),
            IF month_num = 12
            THEN DateTime(current_year, 1, 1, 0, 0, 0, 0, TRUE)
            ELSE DateTime(current_year, month_num + 1, 1, 0, 0, 0, 0, TRUE)>>,
        now.year)

\* start_date and end_date of _filter_by_month: the first day of the month
\* in the current year and the first day of the month after it, both UTC.
MonthRange(month_num, now) ==
  Apply(LAMBDA current_year :
          <<DateTime(current_year, month_num, 1, 0, 0, 0, 0, TRUE),
            IF month_num = 12
            THEN DateTime(current_year + 1, 1, 1, 0, 0, 0, 0, TRUE)
            ELSE DateTime(current_year, month_num + 1, 1, 0, 0, 0, 0, TRUE)>>,
        now.year)

_filter_by_month(announcements, month_num, now) ==
  Apply(LAMBDA range : _filter_by_date_range(announcements, range[1], range[2]),
        MonthRange(month_num, now))

\* The first month, January to December, whose name occurs in the query; 0
\* when none does.
RECURSIVE FirstMonthIn(_, _)
FirstMonthIn(date_query, month_num) ==
  IF month_num > 12 THEN 0
  ELSE IF Contains(month_names[month_num], date_query) THEN month_num
  ELSE FirstMonthIn(date_query, month_num + 1)

\* start_date and end_date are both truthy.
BothSet(range) == ~IsNone(range[1]) /\ ~IsNone(range[2])

\* Which return statement of _filter_by_date a query ends in.
DateQueryKind(date_query0, now) ==
  Apply(LAMBDA date_query :
          IF FirstMonthIn(date_query, 1) > 0 THEN "month"
          ELSE IF BothSet(extract_date_time_range(date_query, now)) THEN "range"
          ELSE IF ~IsNone(parse_date_time(date_query, now)) THEN "single"
          ELSE "unparsed",
        Strip(Lower(date_query0)))

\* _filter_by_date behind the loop over the month names.
FilterByParsedDate(announcements, date_query, now) ==
  Apply(LAMBDA range :
          IF BothSet(range)
          THEN _filter_by_date_range(announcements, Val(range[1]), Val(range[2]))
          ELSE Apply(LAMBDA single_date :
                       IF ~IsNone(single_date)
                       THEN _filter_by_date_range(announcements, Val(single_date),
                                                  AddDays(Val(single_date), 1))
                       ELSE Returned(announcements),
                     parse_date_time(date_query, now)),
        extract_date_time_range(date_query, now))

\* _filter_by_date with the month names looked for last, when the query
\* holds neither a range nor a single date.
_filter_by_date_months_last(announcements, date_query0, now) ==
  Apply(LAMBDA date_query :
          IF BothSet(extract_date_time_range(date_query, now))
          THEN FilterByParsedDate(announcements, date_query, now)
          ELSE Apply(LAMBDA month_num :
                       IF month_num > 0
                       THEN _filter_by_month(announcements, month_num, now)
                       ELSE FilterByParsedDate(announcements, date_query, now),
                     FirstMonthIn(date_query, 1)),
        Strip(Lower(date_query0)))

_filter_by_date(announcements, date_query0, now) ==
  Apply(LAMBDA date_query :
          Apply(LAMBDA month_num :
                  IF month_num > 0
                  THEN _filter_by_month(announcements, month_num, now)
                  ELSE FilterByParsedDate(announcements, date_query, now),
                FirstMonthIn(date_query, 1)),
        Strip(Lower(date_query0)))


\* The start_date and end_date with which _filter_by_date calls
\* _filter_by_date_range, made UTC as its lines 831-834 do; None for a query
\* that ends in the last return, without a range.
AppliedRange(date_query0, now) ==
  Apply(LAMBDA date_query :
          Apply(LAMBDA month_num :
                  IF month_num > 0 THEN Some(MonthRange(month_num, now))
                  ELSE Apply(LAMBDA range :
                               IF BothSet(range)
                               THEN Some(<<AsUTC(Val(range[1])), AsUTC(Val(range[2]))>>)
                               ELSE Apply(LAMBDA single_date :
                                            IF ~IsNone(single_date)
                                            THEN Some(<<AsUTC(Val(single_date)),
                                                        AsUTC(AddDays(Val(single_date), 1))>>)
                                            ELSE None,
                                          parse_date_time(date_query, now)),
                             extract_date_time_range(date_query, now)),
                FirstMonthIn(date_query, 1)),
        Strip(Lower(date_query0)))
(* ------------------------------ pipeline ------------------------------- *)

\* The text of a "message" or "error" entry, by its parts: which f-string
\* it is, the count it prints and the filter steps it joins with " AND ".
Text(kind, n, filter_steps) ==
  [kind |-> kind, count |-> n, filter_steps |-> filter_steps]

\* {"count": ..., "announcements": ..., key: text}
Response(announcements, key, text) ==
  [count |-> Len(announcements), announcements |-> announcements,
   key |-> key, text |-> text]

\* AirtableClient.get_all_records: the records of the table, or [] when
\* there is no connection or the request fails.
get_all_records(airtable, store) ==
  IF airtable = "up" THEN store ELSE <<>>

\* AirtableTool.get_all_announcements
get_all_announcements(airtable, store) ==
  IF airtable = "none"
  THEN Response(<<>>, "error", Text("not_initialized", 0, <<>>))
  ELSE LET records == get_all_records(airtable, store)
       IN  IF Len(records) = 0
           THEN Response(<<>>, "message", Text("no_announcements", 0, <<>>))
           ELSE Response(records, "message", Text("found", Len(records), <<>>))

\* x if x else None: the input is not stripped.
CleanInputUnstripped(x) == IF Truthy(x) THEN x ELSE None

\* x.strip() if x else None
CleanInput(x) == IF Truthy(x) THEN Some(Strip(Val(x))) ELSE None

\* One entry of filter_steps: f"sender '{sender_name}'" and the like.
FilterStep(filter, value) == [filter |-> filter, value |-> value]

\* "not announcements and (sender_name or date_query)" under "if search_text",
\* with "or" read as "and": the fallback only when both filters were given.
FallbackBothFilters(search_text, sender_name, date_query, after_date) ==
  /\ Truthy(search_text)
  /\ Len(after_date) = 0
  /\ (Truthy(sender_name) /\ Truthy(date_query))

\* "not announcements and (sender_name or date_query)" under "if search_text"
Fallback(search_text, sender_name, date_query, after_date) ==
  /\ Truthy(search_text)
  /\ Len(after_date) = 0
  /\ (Truthy(sender_name) \/ Truthy(date_query))

\* filter_steps: one entry for each stage that was applied; `applied` is
\* <<sender, date, text>>.
FilterSteps(search_text, sender_name, date_query, applied) ==
  (IF applied[1] THEN <<FilterStep("sender", Val(sender_name))>> ELSE <<>>)
  \o (IF applied[2] THEN <<FilterStep("date", Val(date_query))>> ELSE <<>>)
  \o (IF applied[3] THEN <<FilterStep("text", Val(search_text))>> ELSE <<>>)

\* The values of the local variables at the end of the function: the
\* cleaned inputs, the working set behind each stage, whether the date
\* stage raised, whether the fallback was taken, the list the text stage
\* was given and whether it ran, the final working set and filter_steps.
Locals(search_text, sender_name, date_query, all, after_sender, raised, after_date, fallback, text_in, text_applied, final, filter_steps) ==
  [search_text |-> search_text, sender_name |-> sender_name,
   date_query |-> date_query, all |-> all,
   sender_applied |-> Truthy(sender_name), after_sender |-> after_sender,
   date_applied |-> Truthy(date_query), raised |-> raised,
   after_date |-> after_date, fallback |-> fallback,
   text_in |-> text_in, text_applied |-> text_applied, final |-> final,
   filter_steps |-> filter_steps]

\* Stage 4.
TextStage(search_text, sender_name, date_query, all, after_sender, after_date) ==
  Apply(LAMBDA text_in :
          Apply(LAMBDA final :
                  Locals(search_text, sender_name, date_query, all,
                         after_sender, FALSE, after_date,
                         Fallback(search_text, sender_name, date_query,
                                  after_date),
                         text_in, Truthy(search_text) /\ Len(text_in) > 0,
                         final,
                         FilterSteps(search_text, sender_name, date_query,
                                     <<Truthy(sender_name), Truthy(date_query),
                                       Truthy(search_text) /\ Len(text_in) > 0>>)),
                IF Truthy(search_text) /\ Len(text_in) > 0
                THEN _search_and_rank_by_text(text_in, Val(search_text))
                ELSE text_in),
        IF Fallback(search_text, sender_name, date_query, after_date)
        THEN all
        ELSE after_date)

\* Stage 3, then stage 4 unless the date filter raised: the exception
\* leaves the try block, and nothing behind the date filter runs.
DateStage(search_text, sender_name, date_query, all, after_sender, now) ==
  Apply(LAMBDA date_outcome :
          IF date_outcome.raised
          THEN Locals(search_text, sender_name, date_query, all, after_sender,
                      TRUE, <<>>, FALSE, <<>>, FALSE, <<>>,
                      FilterSteps(search_text, sender_name, date_query,
                                  <<Truthy(sender_name), FALSE, FALSE>>))
          ELSE TextStage(search_text, sender_name, date_query, all,
                         after_sender, date_outcome.announcements),
        IF Truthy(date_query)
        THEN _filter_by_date(after_sender, Val(date_query), now)
        ELSE Returned(after_sender))

\* Stage 2, then stages 3 and 4.
SenderStage(search_text, sender_name, date_query, all, now) ==
  Apply(LAMBDA after_sender :
          DateStage(search_text, sender_name, date_query, all, after_sender, now),
        IF Truthy(sender_name)
        THEN _filter_by_sender(all, Val(sender_name))
        ELSE all)

\* The body of combined_filter_announcements behind the connection check:
\* the values of its local variables when it returns.
FilterStages(airtable, store, search_text0, sender_name0, date_query0, now) ==
  Apply(LAMBDA in : SenderStage(in[1], in[2], in[3], in[4], now),
        <<CleanInput(search_text0), CleanInput(sender_name0),
          CleanInput(date_query0),
          get_all_announcements(airtable, store).announcements>>)

\* ResponseOf with an "error" answer that keeps the working set the call
\* had when the exception was raised.
ResponseOfPartial(st) ==
  IF st.raised
  THEN Response(st.after_sender, "error", Text("exception", 0, <<>>))
  ELSE IF Len(st.filter_steps) > 0
  THEN Response(st.final, "message",
                Text("found_matching", Len(st.final), st.filter_steps))
  ELSE Response(st.final, "message", Text("found", Len(st.final), <<>>))

\* The dictionary combined_filter_announcements returns from the values of
\* its local variables.
ResponseOf(st) ==
  IF st.raised
  THEN Response(<<>>, "error", Text("exception", 0, <<>>))
  ELSE IF Len(st.filter_steps) > 0
  THEN Response(st.final, "message",
                Text("found_matching", Len(st.final), st.filter_steps))
  ELSE Response(st.final, "message", Text("found", Len(st.final), <<>>))

\* One call: <<the locals at the return, the dictionary returned>>.  The
\* first return, of a tool without connection, is taken before any local
\* exists.
CallOutcome(airtable, store, search_text, sender_name, date_query, now) ==
  IF airtable = "none"
  THEN <<None, Response(<<>>, "error", Text("not_initialized", 0, <<>>))>>
  ELSE Apply(LAMBDA st : <<Some(st), ResponseOf(st)>>,
             FilterStages(airtable, store, search_text, sender_name,
                          date_query, now))

combined_filter_announcements(airtable, store, search_text, sender_name, date_query, now) ==
  CallOutcome(airtable, store, search_text, sender_name, date_query, now)[2]

(* ------------------------------- inputs -------------------------------- *)

Announcement(title, description, sent_by, sent_time) ==
  [Title |-> title, Description |-> description,
   SentByUser |-> sent_by, SentTime |-> sent_time]

\* "Lemonade and Cookie Sale" by Sierra Robbins, 2025-05-10T10:00:00Z
LemonadeSale ==
  Announcement(<<"L", "e", "m", "o", "n", "a", "d", "e", " ", "a", "n", "d", " ", "C", "o", "o", "k", "i", "e", " ", "S", "a", "l", "e">>,
               <<>>,
               <<"S", "i", "e", "r", "r", "a", " ", "R", "o", "b", "b", "i", "n", "s">>,
               <<"2", "0", "2", "5", "-", "0", "5", "-", "1", "0", "T", "1", "0", ":", "0", "0", ":", "0", "0", "Z">>)

\* "Math Test" by Sierra Robbins, 2025-05-15T10:00:00Z
MathTest ==
  Announcement(<<"M", "a", "t", "h", " ", "T", "e", "s", "t">>,
               <<>>,
               <<"S", "i", "e", "r", "r", "a", " ", "R", "o", "b", "b", "i", "n", "s">>,
               <<"2", "0", "2", "5", "-", "0", "5", "-", "1", "5", "T", "1", "0", ":", "0", "0", ":", "0", "0", "Z">>)

\* "Lunch Menu" / "The lunch for this week" by Jane Smith,
\* 2025-06-02T09:15:00.000Z
LunchMenu ==
  Announcement(<<"L", "u", "n", "c", "h", " ", "M", "e", "n", "u">>,
               <<"T", "h", "e", " ", "l", "u", "n", "c", "h", " ", "f", "o", "r", " ", "t", "h", "i", "s", " ", "w", "e", "e", "k">>,
               <<"J", "a", "n", "e", " ", "S", "m", "i", "t", "h">>,
               <<"2", "0", "2", "5", "-", "0", "6", "-", "0", "2", "T", "0", "9", ":", "1", "5", ":", "0", "0", ".", "0", "0", "0", "Z">>)

\* "Bake Sale" / "cookie lunch", no sender, SentTime "2025-05-07" (no zone)
BakeSale ==
  Announcement(<<"B", "a", "k", "e", " ", "S", "a", "l", "e">>,
               <<"c", "o", "o", "k", "i", "e", " ", "l", "u", "n", "c", "h">>,
               <<>>,
               <<"2", "0", "2", "5", "-", "0", "5", "-", "0", "7">>)

RecordPool == {LemonadeSale, MathTest, LunchMenu, BakeSale}

\* The tables of at most n records of the pool, each record at most once,
\* in every order.
RECURSIVE Tables(_)
Tables(n) ==
  IF n = 0 THEN {<<>>}
  ELSE Tables(n - 1)
       \cup UNION {{Append(t, r) :
                      r \in RecordPool \ {t[i] : i \in 1..Len(t)}} :
                    t \in {u \in Tables(n - 1) : Len(u) = n - 1}}

SearchTexts ==
  {None,
   Some(<<>>),
   Some(<<" ", "L", "u", "n", "c", "h", " ">>),
   Some(<<"t", "h", "e">>),
   Some(<<"s", "a", "l", "e">>),
   Some(<<"c", "o", "o", "k", "i", "e", " ", "l", "u", "n", "c", "h">>),
   Some(<<"l", "e", "m", "o", "n", "a", "d", "e", " ", "c", "o", "o", "k", "i", "e", " ", "s", "a", "l", "e">>),
   Some(<<"l", "u", "n", "c", "h", " ", "a", "t", " ", "1", "2">>),
   Some(<<"M", "A", "T", "H", " ", "T", "E", "S", "T">>)}

SenderNames ==
  {None,
   Some(<<"S", "i", "e", "r", "r", "a">>),
   Some(<<"N", "o", "n", "e", "x", "i", "s", "t", "e", "n", "t", " ", "P", "e", "r", "s", "o", "n">>),
   Some(<<"J", "A", "N", "E">>)}

DateQueries ==
  {None,
   Some(<<"i", "n", " ", "M", "a", "y">>),
   Some(<<"n", "o", "n", "s", "e", "n", "s", "e", " ", "q", "u", "e", "r", "y", " ", "x", "y", "z">>),
   Some(<<"2", "0", "2", "5", "-", "0", "5", "-", "1", "0">>)}

\* The values datetime.now() takes: 2025-05-11 14:30:00 and
\* 2026-11-05 09:00:00.
Clocks ==
  {DateTime(2025, 5, 11, 14, 30, 0, 0, FALSE),
   DateTime(2026, 11, 5, 9, 0, 0, 0, FALSE)}

(* ---------------------------- state machine ---------------------------- *)

VARIABLES
  airtable,   \* AirtableClient.airtable: "none" when the constructor failed,
              \* else "up", or "failing" while requests to Airtable fail
  store,      \* the records of the Airtable table, in the order it lists them
  call,       \* the arguments of the latest combined_filter_announcements
  stages,     \* the local variables of that call at its return
  response,   \* the dictionary that call returned
  previous,   \* when the latest call repeats the one before it: the clock
              \* reading, the table and the response of that call
  create,     \* the AirtableClient.create_record call in progress
  sync,       \* what the latest run_sync_job gave its caller
  calendar,   \* the CalendarSync.create_calendar_events call in progress
  histories,  \* ChatHistoryManager.histories: session id to list of (role, content)
  chat,       \* the latest POST /chat: request, result of the agent, response
  last_sync_status,  \* the status dictionary of the ingestion routes
  background_tasks,  \* the sync tasks a request added, not yet started
  job,        \* the run of run_sync_task under way, or the last one
  reply,      \* the response to the latest POST /sync or POST /cron
  inbox       \* the sync requests the server received and has not
              \* handled yet

vars ==
  <<airtable, store, call, stages, response, previous, create, sync, calendar,
    histories, chat, last_sync_status, background_tasks, job, reply, inbox>>

\* last_sync_status as the module creates it (its timestamp is left out:
\* the clock of the sync job is not part of the state).
NoSyncYet ==
  [in_progress |-> FALSE, success |-> None,
   message |-> <<"No synchronization has been run yet">>, details |-> None]

Init ==
  /\ airtable \in {"up", "none"}
  /\ store \in Tables(MaxRecords)
  /\ call = None
  /\ stages = None
  /\ response = None
  /\ previous = None
  /\ inbox = <<>>
  /\ reply = None
  /\ job = None
  /\ background_tasks = <<>>
  /\ last_sync_status = NoSyncYet
  /\ chat = None
  /\ histories = <<>>
  /\ calendar = None
  /\ sync = None
  /\ create = None

\* One call of AirtableTool.combined_filter_announcements.  The tool is
\* synchronous: a call starts when the previous one has returned.
CombinedFilter(search_text, sender_name, date_query, now) ==
  /\ call = None
  /\ call' = Some([search_text |-> search_text, sender_name |-> sender_name,
                   date_query |-> date_query, now |-> now])
  /\ \E outcome \in {CallOutcome(airtable, store, search_text, sender_name,
                                  date_query, now)} :
       /\ stages' = outcome[1]
       /\ response' = Some(outcome[2])
  /\ previous' = None
  /\ UNCHANGED <<airtable, store, create, sync, calendar, histories, chat,
               last_sync_status, background_tasks, job, reply, inbox>>

\* The caller takes the response; the locals of the call are gone.
Return ==
  /\ call # None
  /\ call' = None
  /\ stages' = None
  /\ response' = None
  /\ previous' = None
  /\ UNCHANGED <<airtable, store, create, sync, calendar, histories, chat,
               last_sync_status, background_tasks, job, reply, inbox>>

\* Requests to Airtable begin to fail, or work again.
Outage ==
  /\ call = None
  /\ airtable # "none"
  /\ airtable' = IF airtable = "up" THEN "failing" ELSE "up"
  /\ UNCHANGED <<store, call, stages, response, previous, create, sync, calendar, histories, chat,
               last_sync_status, background_tasks, job, reply, inbox>>

Next ==
  \/ \E search_text \in SearchTexts, sender_name \in SenderNames,
        date_query \in DateQueries, now \in Clocks :
        CombinedFilter(search_text, sender_name, date_query, now)
  \/ Return
  \/ Outage

Spec == Init /\ [][Next]_vars


(* ------------------- calls over a table of dated records ------------------- *)

MaxDated == 2

\* "May Day Assembly" by Jane Smith, 2025-05-01T00:00:00Z
MayDay ==
  Announcement(<<"M", "a", "y", " ", "D", "a", "y", " ", "A", "s", "s", "e", "m", "b", "l", "y">>,
               <<>>,
               <<"J", "a", "n", "e", " ", "S", "m", "i", "t", "h">>,
               <<"2", "0", "2", "5", "-", "0", "5", "-", "0", "1", "T", "0", "0", ":", "0", "0", ":", "0", "0", "Z">>)

\* "Summer Break" by Jane Smith, 2025-06-01T00:00:00Z
SummerBreak ==
  Announcement(<<"S", "u", "m", "m", "e", "r", " ", "B", "r", "e", "a", "k">>,
               <<>>,
               <<"J", "a", "n", "e", " ", "S", "m", "i", "t", "h">>,
               <<"2", "0", "2", "5", "-", "0", "6", "-", "0", "1", "T", "0", "0", ":", "0", "0", ":", "0", "0", "Z">>)

\* "Field Trip" by Jane Smith, without a SentTime
FieldTrip ==
  Announcement(<<"F", "i", "e", "l", "d", " ", "T", "r", "i", "p">>,
               <<>>,
               <<"J", "a", "n", "e", " ", "S", "m", "i", "t", "h">>,
               <<>>)

\* "Picture Day" by Jane Smith, SentTime "tbd"
PictureDay ==
  Announcement(<<"P", "i", "c", "t", "u", "r", "e", " ", "D", "a", "y">>,
               <<>>,
               <<"J", "a", "n", "e", " ", "S", "m", "i", "t", "h">>,
               <<"t", "b", "d">>)

\* "Talent Show" by Jane Smith, 2025-05-10T23:59:59.999999Z
TalentShow ==
  Announcement(<<"T", "a", "l", "e", "n", "t", " ", "S", "h", "o", "w">>,
               <<>>,
               <<"J", "a", "n", "e", " ", "S", "m", "i", "t", "h">>,
               <<"2", "0", "2", "5", "-", "0", "5", "-", "1", "0", "T", "2", "3", ":", "5", "9", ":", "5", "9", ".", "9", "9", "9", "9", "9", "9", "Z">>)

\* "Winter Concert" by Jane Smith, 2025-12-31T23:30:00Z
WinterConcert ==
  Announcement(<<"W", "i", "n", "t", "e", "r", " ", "C", "o", "n", "c", "e", "r", "t">>,
               <<>>,
               <<"J", "a", "n", "e", " ", "S", "m", "i", "t", "h">>,
               <<"2", "0", "2", "5", "-", "1", "2", "-", "3", "1", "T", "2", "3", ":", "3", "0", ":", "0", "0", "Z">>)

DatedPool ==
  {LemonadeSale, BakeSale, MayDay, SummerBreak, FieldTrip, PictureDay,
   TalentShow, WinterConcert}

\* The tables of at most n records of the dated pool, each record at most
\* once, in every order.
RECURSIVE DatedTables(_)
DatedTables(n) ==
  IF n = 0 THEN {<<>>}
  ELSE DatedTables(n - 1)
       \cup UNION {{Append(t, r) :
                      r \in DatedPool \ {t[i] : i \in 1..Len(t)}} :
                    t \in {u \in DatedTables(n - 1) : Len(u) = n - 1}}

\* search_text, sender_name and date_query of a call: a date query alone, or
\* no criterion at all (absent, empty or blank).
Criteria ==
  {<<None, None, Some(<<"i", "n", " ", "M", "a", "y">>)>>,
   <<None, None, Some(<<"D", "e", "c", "e", "m", "b", "e", "r">>)>>,
   <<None, None, Some(<<"l", "a", "s", "t", " ", "w", "e", "e", "k", " ", "i", "n", " ", "M", "a", "y">>)>>,
   <<None, None, Some(<<"n", "e", "x", "t", " ", "m", "o", "n", "d", "a", "y", " ", "i", "n", " ", "M", "a", "y">>)>>,
   <<None, None, Some(<<"2", "0", "2", "5", "-", "0", "5", "-", "1", "0">>)>>,
   <<None, None, Some(<<"2", "0", "2", "5", "-", "0", "5", "-", "1", "0", " ", "1", "4", ":", "3", "0", ":", "0", "0">>)>>,
   <<None, None, Some(<<"1", " ", "d", "a", "y", "s", " ", "a", "g", "o">>)>>,
   <<None, None, Some(<<"t", "h", "i", "s", " ", "m", "o", "n", "t", "h">>)>>,
   <<None, None, Some(<<"n", "o", "n", "s", "e", "n", "s", "e", " ", "q", "u", "e", "r", "y", " ", "x", "y", "z">>)>>,
   <<None, None, None>>,
   <<Some(<<>>), Some(<<>>), Some(<<>>)>>,
   <<Some(<<" ", " ">>), None, Some(<<" ", " ", " ">>)>>,
   <<None, Some(<<" ">>), None>>}

\* The values datetime.now() takes: 2025-05-11 09:00:00, 2025-05-11 14:30:00
\* and 2026-11-05 09:00:00.
DatedClocks ==
  {DateTime(2025, 5, 11, 9, 0, 0, 0, FALSE),
   DateTime(2025, 5, 11, 14, 30, 0, 0, FALSE),
   DateTime(2026, 11, 5, 9, 0, 0, 0, FALSE)}

DatedInit ==
  /\ airtable = "up"
  /\ store \in DatedTables(MaxDated)
  /\ call = None
  /\ stages = None
  /\ response = None
  /\ previous = None
  /\ inbox = <<>>
  /\ reply = None
  /\ job = None
  /\ background_tasks = <<>>
  /\ last_sync_status = NoSyncYet
  /\ chat = None
  /\ histories = <<>>
  /\ calendar = None
  /\ sync = None
  /\ create = None

DatedNext ==
  \/ \E criteria \in Criteria, now \in DatedClocks :
        CombinedFilter(criteria[1], criteria[2], criteria[3], now)
  \/ Return

DatedSpec == DatedInit /\ [][DatedNext]_vars

(* ----------------------------- repeated calls ----------------------------- *)

RepeatPool == {LemonadeSale, MayDay, BakeSale}

\* The tables of at most n records of that pool, each record at most once,
\* in every order.
RECURSIVE RepeatTables(_)
RepeatTables(n) ==
  IF n = 0 THEN {<<>>}
  ELSE RepeatTables(n - 1)
       \cup UNION {{Append(t, r) :
                      r \in RepeatPool \ {t[i] : i \in 1..Len(t)}} :
                    t \in {u \in RepeatTables(n - 1) : Len(u) = n - 1}}

\* search_text, sender_name and date_query of a call that is repeated.
RepeatCriteria ==
  {<<None, None, Some(<<"i", "n", " ", "M", "a", "y">>)>>,
   <<None, None, Some(<<"1", " ", "d", "a", "y", "s", " ", "a", "g", "o">>)>>,
   <<Some(<<"s", "a", "l", "e">>), None, None>>,
   <<Some(<<"s", "a", "l", "e">>), Some(<<"S", "i", "e", "r", "r", "a">>),
     Some(<<"t", "h", "i", "s", " ", "m", "o", "n", "t", "h">>)>>}

RepeatInit ==
  /\ airtable = "up"
  /\ store \in RepeatTables(MaxDated)
  /\ call = None
  /\ stages = None
  /\ response = None
  /\ previous = None
  /\ inbox = <<>>
  /\ reply = None
  /\ job = None
  /\ background_tasks = <<>>
  /\ last_sync_status = NoSyncYet
  /\ chat = None
  /\ histories = <<>>
  /\ calendar = None
  /\ sync = None
  /\ create = None

\* The caller makes the call it has just made once more, with the same
\* arguments, at a later or the same reading of the clock.
Again(now) ==
  /\ call # None
  /\ previous = None
  /\ previous' = Some([now |-> Val(call).now, store |-> store,
                       response |-> Val(response)])
  /\ call' = Some([Val(call) EXCEPT !.now = now])
  /\ \E outcome \in {CallOutcome(airtable, store, Val(call).search_text,
                                  Val(call).sender_name, Val(call).date_query,
                                  now)} :
       /\ stages' = outcome[1]
       /\ response' = Some(outcome[2])
  /\ UNCHANGED <<airtable, store, create, sync, calendar, histories, chat,
               last_sync_status, background_tasks, job, reply, inbox>>

RepeatNext ==
  \/ \E criteria \in RepeatCriteria, now \in DatedClocks :
        CombinedFilter(criteria[1], criteria[2], criteria[3], now)
  \/ \E now \in DatedClocks : Again(now)
  \/ Return

RepeatSpec == RepeatInit /\ [][RepeatNext]_vars

(* ---- a table that holds a record twice, or records of several tiers ---- *)

MaxCopies == 2

\* Besides the two announcements, "Reminder" / "the math test" by Office,
\* 2025-05-12T08:00:00Z.
CopiesPool ==
  {LemonadeSale, MathTest,
   Announcement(<<"R", "e", "m", "i", "n", "d", "e", "r">>,
                <<"t", "h", "e", " ", "m", "a", "t", "h", " ", "t", "e", "s", "t">>,
                <<"O", "f", "f", "i", "c", "e">>,
                <<"2", "0", "2", "5", "-", "0", "5", "-", "1", "2", "T", "0", "8", ":", "0", "0", ":", "0", "0", "Z">>)}

\* The tables of at most n records of that pool, a record any number of
\* times: Airtable gives each row its own id, and two rows can hold the
\* same fields.
RECURSIVE CopiesTables(_)
CopiesTables(n) ==
  IF n = 0 THEN {<<>>}
  ELSE CopiesTables(n - 1)
       \cup {Append(t, r) : t \in {u \in CopiesTables(n - 1) : Len(u) = n - 1},
                            r \in CopiesPool}

CopiesInit ==
  /\ airtable \in {"up", "none"}
  /\ store \in CopiesTables(MaxCopies)
  /\ call = None
  /\ stages = None
  /\ response = None
  /\ previous = None
  /\ inbox = <<>>
  /\ reply = None
  /\ job = None
  /\ background_tasks = <<>>
  /\ last_sync_status = NoSyncYet
  /\ chat = None
  /\ histories = <<>>
  /\ calendar = None
  /\ sync = None
  /\ create = None

CopiesNext ==
  \/ \E search_text \in
          {None,
           Some(<<"s", "a", "l", "e">>),
           Some(<<"t", "h", "e", " ", "m", "a", "t", "h", " ", "t", "e", "s", "t">>),
           Some(<<"l", "e", "m", "o", "n", "a", "d", "e", " ", "c", "o", "o", "k", "i", "e", " ", "s", "a", "l", "e">>)},
        sender_name \in SenderNames, date_query \in DateQueries, now \in Clocks :
        CombinedFilter(search_text, sender_name, date_query, now)
  \/ Return
  \/ Outage

CopiesSpec == CopiesInit /\ [][CopiesNext]_vars


(* ------------------------ AirtableClient.create_record ------------------------ *)

MaxStored == 3

\* The records _save_to_airtable builds (AnnouncementId is the dbId of the
\* announcement, None when it has none) for the announcements SchoolConnect
\* lists, run after run: two with a dbId, one without.
IngestPool ==
  {[AnnouncementId |-> Some(<<"1", "5", "9", "9", "2", "5", "2", "5">>),
    Title |-> <<"A">>],
   [AnnouncementId |-> Some(<<"1", "5", "9", "2", "9", "9", "5", "1">>),
    Title |-> <<"B">>],
   [AnnouncementId |-> None, Title |-> <<"C">>]}

IngestInit ==
  /\ airtable \in {"up", "none"}
  /\ store = <<>>
  /\ call = None
  /\ stages = None
  /\ response = None
  /\ previous = None
  /\ inbox = <<>>
  /\ reply = None
  /\ job = None
  /\ background_tasks = <<>>
  /\ last_sync_status = NoSyncYet
  /\ chat = None
  /\ histories = <<>>
  /\ calendar = None
  /\ sync = None
  /\ create = None

\* create_record up to its first request to Airtable.  Without a connection
\* it returns None at once; with a false AnnouncementId it skips the check.
CreateRecord(record_data) ==
  /\ call = None
  /\ IF create = None THEN TRUE ELSE Val(create).pc = "return"
  /\ create' =
       Some([record_data |-> record_data,
             pc |-> IF airtable = "none" THEN "return"
                    ELSE IF Truthy(record_data.AnnouncementId) THEN "check"
                    ELSE "insert",
             result |-> None])
  /\ UNCHANGED <<airtable, store, call, stages, response, previous, sync, calendar, histories, chat,
               last_sync_status, background_tasks, job, reply, inbox>>

\* check_record_exists: a get_all request with the formula
\* {AnnouncementId} = '<id>'.  A request that raises gives False.
CheckRecordExists ==
  /\ create # None
  /\ Val(create).pc = "check"
  /\ \E exists \in
        {IF airtable = "failing" THEN FALSE
         ELSE \E i \in 1..Len(store) :
                store[i].AnnouncementId = Val(create).record_data.AnnouncementId} :
       create' =
         IF exists
         THEN Some([Val(create) EXCEPT
                      !.pc = "return",
                      !.result = Some([id |-> "existing",
                                       fields |-> [AnnouncementId |->
                                         Val(Val(create).record_data.AnnouncementId)]])])
         ELSE Some([Val(create) EXCEPT !.pc = "insert"])
  /\ UNCHANGED <<airtable, store, call, stages, response, previous, sync, calendar, histories, chat,
               last_sync_status, background_tasks, job, reply, inbox>>

\* self.airtable.insert(record_data): the record is appended to the table and
\* returned under a fresh id; a request that raises makes create_record
\* return None.
Insert ==
  /\ create # None
  /\ Val(create).pc = "insert"
  /\ Len(store) < MaxStored
  /\ IF airtable = "failing"
     THEN /\ create' = Some([Val(create) EXCEPT !.pc = "return", !.result = None])
          /\ UNCHANGED store
     ELSE /\ store' = Append(store, Val(create).record_data)
          /\ create' =
               Some([Val(create) EXCEPT
                       !.pc = "return",
                       !.result = Some([id |-> "rec",
                                        fields |-> Val(create).record_data])])
  /\ UNCHANGED <<airtable, call, stages, response, previous, sync, calendar, histories, chat,
               last_sync_status, background_tasks, job, reply, inbox>>

IngestNext ==
  \/ \E record_data \in IngestPool : CreateRecord(record_data)
  \/ CheckRecordExists
  \/ Insert
  \/ Outage

IngestSpec == IngestInit /\ [][IngestNext]_vars

(* --------------------------- calendar integration --------------------------- *)

\* The event details AnnouncementProcessor extracts; an absent key is None.
EventDetails ==
  {[EVENT |-> Some(<<"S", "c", "h", "o", "o", "l", " ", "A", "s", "s", "e", "m", "b", "l", "y">>),
    DATE_OF_EVENT |-> Some(date),
    SUPPLIES_NEEDED |-> supplies,
    REMINDER_DATE |-> reminder] :
     date \in {<<"2", "0", "2", "5", "-", "0", "6", "-", "2", "0">>,
               <<"U", "n", "k", "n", "o", "w", "n">>,
               <<"J", "u", "n", "e", " ", "2", "0">>},
     supplies \in {None, Some(<<"N", "o", "n", "e">>),
                   Some(<<"l", "u", "n", "c", "h", ",", " ", "w", "a", "t", "e", "r", " ", "b", "o", "t", "t", "l", "e">>)},
     reminder \in {None, Some(<<"N", "/", "A">>),
                   Some(<<"U", "n", "k", "n", "o", "w", "n">>),
                   Some(<<"J", "u", "n", "e", " ", "2", "0">>),
                   Some(<<"2", "0", "2", "5", "-", "0", "6", "-", "1", "7">>)}}

\* What calendar_tool.create_event may give: the dictionaries of
\* GoogleCalendarTool.create_event, the strings of the older tool, or an
\* exception.
ToolResults ==
  {[type |-> "dict", success |-> TRUE,
    event_id |-> Some(<<"e", "v", "e", "n", "t", "1", "2", "3">>)],
   [type |-> "dict", success |-> TRUE,
    event_id |-> Some(<<"r", "e", "m", "i", "n", "d", "e", "r", "4", "5", "6">>)],
   [type |-> "dict", success |-> TRUE, event_id |-> None],
   [type |-> "dict", success |-> FALSE, event_id |-> None],
   [type |-> "str",
    text |-> <<"S", "u", "c", "c", "e", "s", "s", "f", "u", "l", "l", "y", " ", "c", "r", "e", "a", "t", "e", "d", " ", "c", "a", "l", "e", "n", "d", "a", "r", " ", "e", "v", "e", "n", "t", ":", " ", "S", "c", "h", "o", "o", "l", " ", "A", "s", "s", "e", "m", "b", "l", "y", " ", "w", "i", "t", "h", " ", "I", "D", ":", " ", "e", "v", "e", "n", "t", "1", "2", "3">>],
   [type |-> "str",
    text |-> <<"E", "r", "r", "o", "r", ":", " ", "E", "v", "e", "n", "t", " ", "t", "i", "t", "l", "e", " ", "i", "s", " ", "r", "e", "q", "u", "i", "r", "e", "d">>],
   [type |-> "raise"]}

\* _extract_event_id_from_result: the event_id of a successful dictionary
\* (these dictionaries have no key 'id'); for a string with "Successfully
\* created", the first match of the pattern ID: ([a-zA-Z0-9_-]+).
_extract_event_id_from_result(result) ==
  IF result.type = "dict"
  THEN IF result.success /\ Truthy(result.event_id) THEN result.event_id ELSE None
  ELSE LET text == result.text
           IdChars == UpperLetters \cup {UpperToLower[c] : c \in UpperLetters}
                        \cup DigitChars \cup {"_", "-"}
           Starts == {i \in 1..(Len(text) - 4) :
                        /\ MatchAt(<<"I", "D", ":", " ">>, text, i)
                        /\ text[i + 4] \in IdChars}
       IN IF ~Contains(<<"S", "u", "c", "c", "e", "s", "s", "f", "u", "l", "l", "y", " ", "c", "r", "e", "a", "t", "e", "d">>, text)
             \/ Starts = {}
          THEN None
          ELSE LET i == CHOOSE s \in Starts : \A t \in Starts : s <= t
               IN Some(SubSeq(text, i + 4,
                              CHOOSE j \in (i + 4)..Len(text) :
                                /\ \A k \in (i + 4)..j : text[k] \in IdChars
                                /\ j = Len(text) \/ text[j + 1] \notin IdChars))

\* _create_main_event_with_status and _create_reminder_event_with_status,
\* which differ in the key of the date and in the values that stand for no
\* date: whether create_event is called, and the status returned when that
\* call gives result.  A date that strptime('%Y-%m-%d') rejects raises before
\* the call; every exception gives success False.  All-day and timed events
\* differ in the arguments of the call only.
EventWithStatus(date, no_date, result) ==
  LET called == Truthy(date) /\ Val(date) \notin no_date /\ IsIsoDate(Val(date))
      event_id == _extract_event_id_from_result(result)
      success ==
        /\ called
        /\ result.type # "raise"
        /\ IF result.type = "dict" THEN result.success
           ELSE /\ ~Contains(<<"E", "r", "r", "o", "r">>, result.text)
                /\ ~Contains(<<"F", "a", "i", "l", "e", "d">>, result.text)
  IN [called |-> called, success |-> success,
      event_id |-> IF success THEN event_id ELSE None]

NeedsReminderDateOnly(event_details) ==
  /\ Truthy(event_details.REMINDER_DATE)
  /\ Val(event_details.REMINDER_DATE)
       \notin {<<"N", "/", "A">>, <<"U", "n", "k", "n", "o", "w", "n">>}

\* The test of create_calendar_events before the reminder: SUPPLIES NEEDED
\* is present and not 'None', REMINDER DATE is present and neither 'N/A' nor
\* 'Unknown'.
NeedsReminder(event_details) ==
  /\ Truthy(event_details.SUPPLIES_NEEDED)
  /\ Val(event_details.SUPPLIES_NEEDED) # <<"N", "o", "n", "e">>
  /\ Truthy(event_details.REMINDER_DATE)
  /\ Val(event_details.REMINDER_DATE)
       \notin {<<"N", "/", "A">>, <<"U", "n", "k", "n", "o", "w", "n">>}

\* A call of create_calendar_events begins when the one before has returned.
CreateCalendarEvents(event_details) ==
  /\ IF calendar = None THEN TRUE ELSE Val(calendar).pc = "return"
  /\ calendar' = Some([event_details |-> event_details, pc |-> "main",
                       calls |-> <<>>, result |-> None])
  /\ UNCHANGED <<airtable, store, call, stages, response, previous, create, sync, histories, chat,
               last_sync_status, background_tasks, job, reply, inbox>>

\* The main event: create_event gives result, if it is called.  Without
\* success create_calendar_events returns None.
MainEvent(result) ==
  /\ calendar # None
  /\ Val(calendar).pc = "main"
  /\ \E main_event_result \in
        {EventWithStatus(Val(calendar).event_details.DATE_OF_EVENT,
                         {<<"U", "n", "k", "n", "o", "w", "n">>}, result)} :
       calendar' =
         Some([Val(calendar) EXCEPT
                 !.calls = IF main_event_result.called
                           THEN Append(@, [event |-> "main", result |-> result])
                           ELSE @,
                 !.pc = IF ~main_event_result.success THEN "return"
                        ELSE IF NeedsReminder(Val(calendar).event_details)
                        THEN "reminder"
                        ELSE "return",
                 !.result = IF main_event_result.success
                            THEN Some([main_event_id |-> main_event_result.event_id,
                                       reminder_event_id |-> None])
                            ELSE None])
  /\ UNCHANGED <<airtable, store, call, stages, response, previous, create, sync, histories, chat,
               last_sync_status, background_tasks, job, reply, inbox>>

\* The reminder: create_event gives result, if it is called.
ReminderEvent(result) ==
  /\ calendar # None
  /\ Val(calendar).pc = "reminder"
  /\ \E reminder_result \in
        {EventWithStatus(Val(calendar).event_details.REMINDER_DATE,
                         {<<"N", "/", "A">>, <<"U", "n", "k", "n", "o", "w", "n">>},
                         result)} :
       calendar' =
         Some([Val(calendar) EXCEPT
                 !.calls = IF reminder_result.called
                           THEN Append(@, [event |-> "reminder", result |-> result])
                           ELSE @,
                 !.pc = "return",
                 !.result = Some([Val(@) EXCEPT
                                    !.reminder_event_id = reminder_result.event_id])])
  /\ UNCHANGED <<airtable, store, call, stages, response, previous, create, sync, histories, chat,
               last_sync_status, background_tasks, job, reply, inbox>>

\* The methods of AirtableClient (client.py).
AirtableClientMethods ==
  {"check_record_exists", "create_record", "get_all_records",
   "get_records_with_formula", "search_records", "get_record_by_id",
   "get_latest_record"}

\* run_sync_job.  The module does not compile: lines 84 and 90 have a
\* backslash in the expression part of an f-string (loads is FALSE); an
\* interpreter that took those lines would run the body, whose first request
\* to the store, filter_announcements_by_date, is not a method of
\* AirtableClient: the AttributeError is caught at line 104 and the job
\* returns status 'failed'.  The loop over the announcements (39-100), which
\* calls update_record, is never reached.
RunSyncJob(loads) ==
  /\ sync' =
       IF ~loads THEN Some([raised |-> Some("SyntaxError"), status |-> None])
       ELSE IF "filter_announcements_by_date" \notin AirtableClientMethods
       THEN Some([raised |-> None, status |-> Some("failed")])
       ELSE Some([raised |-> None, status |-> Some("completed")])
  /\ UNCHANGED <<airtable, store, call, stages, response, previous, create, calendar, histories, chat,
               last_sync_status, background_tasks, job, reply, inbox>>

\* The table holds announcements the calendar has and has not processed.
CalendarInit ==
  /\ airtable \in {"up", "none"}
  /\ store \in
       {<<>>} \cup {<<[id |-> "rec1", CalendarProcessed |-> p]>> : p \in BOOLEAN}
         \cup {<<[id |-> "rec1", CalendarProcessed |-> p],
                 [id |-> "rec2", CalendarProcessed |-> q]>> : p, q \in BOOLEAN}
  /\ call = None
  /\ stages = None
  /\ response = None
  /\ previous = None
  /\ inbox = <<>>
  /\ reply = None
  /\ job = None
  /\ background_tasks = <<>>
  /\ last_sync_status = NoSyncYet
  /\ chat = None
  /\ histories = <<>>
  /\ create = None
  /\ sync = None
  /\ calendar = None

CalendarNext ==
  \/ \E loads \in BOOLEAN : RunSyncJob(loads)
  \/ \E event_details \in EventDetails : CreateCalendarEvents(event_details)
  \/ \E result \in ToolResults : MainEvent(result)
  \/ \E result \in ToolResults : ReminderEvent(result)

CalendarSpec == CalendarInit /\ [][CalendarNext]_vars

(* ------------------------------ chat sessions ------------------------------ *)

MaxMessages == 4

ChatInit ==
  /\ airtable \in {"up", "none"}
  /\ store = <<>>
  /\ call = None
  /\ stages = None
  /\ response = None
  /\ previous = None
  /\ inbox = <<>>
  /\ reply = None
  /\ job = None
  /\ background_tasks = <<>>
  /\ last_sync_status = NoSyncYet
  /\ create = None
  /\ sync = None
  /\ calendar = None
  /\ histories = <<>>
  /\ chat = None

\* POST /chat with message in session session_id, when AgentManager.execute
\* returns the dictionary result.  The handler has no await between its
\* first and its last statement: it runs as one step.  add_message appends
\* (role, content) to the list of the session, which it creates when absent.
Chat(session_id, message, result) ==
  /\ IF session_id \in DOMAIN histories
     THEN Len(histories[session_id]) + 2 <= MaxMessages
     ELSE TRUE
  /\ \E agent_response \in
        {IF "output" \in DOMAIN result THEN result.output
         ELSE "Sorry, I didn't get a clear response."} :
       /\ histories' =
            [s \in DOMAIN histories \cup {session_id} |->
               IF s = session_id
               THEN (IF s \in DOMAIN histories THEN histories[s] ELSE <<>>)
                      \o <<<<"user", message>>, <<"assistant", agent_response>>>>
               ELSE histories[s]]
       /\ chat' = Some([session_id |-> session_id, message |-> message,
                        result |-> result, response |-> agent_response,
                        histories |-> histories])
  /\ UNCHANGED <<airtable, store, call, stages, response, previous, create, sync, calendar,
               last_sync_status, background_tasks, job, reply, inbox>>

\* DELETE /chat/{session_id}: clear_history empties the list of a session
\* that has one.
ClearChatHistory(session_id) ==
  /\ histories' = [s \in DOMAIN histories |->
                     IF s = session_id THEN <<>> ELSE histories[s]]
  /\ chat' = None
  /\ UNCHANGED <<airtable, store, call, stages, response, previous, create, sync, calendar,
               last_sync_status, background_tasks, job, reply, inbox>>

\* The sessions and messages of the requests, and the dictionaries
\* AgentManager.execute returns: the text of the agent under 'response' with
\* success True, or the text of the exception with success False.
ChatNext ==
  \/ \E session_id \in {"s1", "s2"},
        message \in {"Show me all announcements", "hello"},
        result \in {[response |-> "There are 2 announcements.", success |-> TRUE],
                    [response |-> "I encountered an error: timeout", success |-> FALSE]} :
        Chat(session_id, message, result)
  \/ \E session_id \in {"s1", "s2"} : ClearChatHistory(session_id)

ChatSpec == ChatInit /\ [][ChatNext]_vars

(* --------------------------- the ingestion sync job -------------------------- *)

MaxPages == 2

MaxRequests == 1

\* The process after the import of the ingestion routes, Airtable up.
SyncInit ==
  /\ airtable = "up"
  /\ store = <<>>
  /\ call = None
  /\ stages = None
  /\ response = None
  /\ previous = None
  /\ create = None
  /\ sync = None
  /\ calendar = None
  /\ histories = <<>>
  /\ chat = None
  /\ last_sync_status = NoSyncYet
  /\ background_tasks = <<>>
  /\ job = None
  /\ reply = None
  /\ inbox = <<>>

\* The server receives a POST /sync or a POST /cron.  It can do so at any
\* time; the request is handled when the event loop is free.  The field
\* during tells whether, at that time, a sync had been accepted and had not
\* finished: its task was waiting to start or was running.
Receive(request) ==
  /\ Len(inbox) + Len(background_tasks) < MaxRequests
  /\ inbox' =
       Append(inbox,
              [request EXCEPT !.during =
                 background_tasks # <<>> \/ job # None])
  /\ UNCHANGED <<airtable, store, call, stages, response, previous, create,
                 sync, calendar, histories, chat, last_sync_status,
                 background_tasks, job, reply>>

\* POST /sync, handled for the oldest request received, with settings the
\* result of get_settings().  The handler has no await: it runs as one step
\* of the event loop, which run_sync_task holds from its first statement to
\* its last (it awaits nothing and execute blocks).
SyncData(settings) ==
  /\ inbox # <<>>
  /\ Head(inbox).route = "sync"
  /\ job = None
  /\ inbox' = Tail(inbox)
  /\ \E sync_request \in {Head(inbox)} :
       IF last_sync_status.in_progress
       THEN /\ reply' = Some([during |-> sync_request.during, success |-> FALSE,
                              message |-> "A synchronization job is already in progress",
                              details |-> [status |-> "in_progress"]])
            /\ UNCHANGED background_tasks
       ELSE \E username \in
                 {IF sync_request.username # None /\ sync_request.username # Some("")
                  THEN Val(sync_request.username)
                  ELSE settings.SCHOOLCONNECT_USERNAME},
               password \in
                 {IF sync_request.password # None /\ sync_request.password # Some("")
                  THEN Val(sync_request.password)
                  ELSE settings.SCHOOLCONNECT_PASSWORD} :
              IF username = "" \/ password = ""
              THEN /\ reply' = Some([during |-> sync_request.during, success |-> FALSE,
                                     message |-> "SchoolConnect credentials not provided in request or environment variables",
                                     details |-> [status |-> "error",
                                                  error |-> "missing_credentials"]])
                   /\ UNCHANGED background_tasks
              ELSE /\ background_tasks' =
                        Append(background_tasks,
                               [username |-> username, password |-> password,
                                max_pages |-> sync_request.max_pages])
                   /\ reply' = Some([during |-> sync_request.during, success |-> TRUE,
                                     message |-> "Synchronization job started",
                                     details |-> [status |-> "started"]])
  /\ UNCHANGED <<airtable, store, call, stages, response, previous, create,
                 sync, calendar, histories, chat, last_sync_status, job>>

\* POST /cron, handled for the oldest request received, with settings the
\* result of get_settings() and config the configuration of the routes.
CronSyncData(settings, config) ==
  /\ inbox # <<>>
  /\ Head(inbox).route = "cron"
  /\ job = None
  /\ inbox' = Tail(inbox)
  /\ \E request \in {Head(inbox)} :
       IF \/ request.api_key = None
          \/ request.api_key = Some("")
          \/ request.api_key # Some(settings.CRON_API_KEY)
       THEN /\ reply' = Some([during |-> request.during, status_code |-> 401,
                              detail |-> "Invalid or missing API key"])
            /\ UNCHANGED background_tasks
       ELSE IF last_sync_status.in_progress
       THEN /\ reply' = Some([during |-> request.during, success |-> FALSE,
                              message |-> "A synchronization job is already in progress",
                              details |-> [status |-> "in_progress"]])
            /\ UNCHANGED background_tasks
       ELSE IF settings.SCHOOLCONNECT_USERNAME = "" \/ settings.SCHOOLCONNECT_PASSWORD = ""
       THEN /\ reply' = Some([during |-> request.during, success |-> FALSE,
                              message |-> "SchoolConnect credentials not configured in environment variables",
                              details |-> [status |-> "error",
                                           error |-> "missing_credentials"]])
            /\ UNCHANGED background_tasks
       ELSE /\ background_tasks' =
                 Append(background_tasks,
                        [username |-> settings.SCHOOLCONNECT_USERNAME,
                         password |-> settings.SCHOOLCONNECT_PASSWORD,
                         max_pages |-> Some(config.max_pages)])
            /\ reply' = Some([during |-> request.during, success |-> TRUE,
                              message |-> "Cron-triggered synchronization job started",
                              details |-> [status |-> "started"]])
  /\ UNCHANGED <<airtable, store, call, stages, response, previous, create,
                 sync, calendar, histories, chat, last_sync_status, job>>

\* The framework starts a waiting task, the i-th: it runs the tasks of a
\* handler once the response is sent, and whether the event loop handles
\* another request before that depends on the server, so every order is
\* taken.  run_sync_task sets in_progress and calls
\* FetchAnnouncementsTask.execute, which authenticates;
\* error is the second component of what get_authenticated_client returns.
\* On an error execute returns at once; otherwise it is at the test of its
\* fetch loop (pc "while") with no page requested.  requested lists the
\* after_cursor of every fetch_paginated_announcements call, pages what each
\* call returned.
RunSyncTask(i, error) ==
  /\ i \in 1..Len(background_tasks)
  /\ job = None
  /\ background_tasks' =
       SubSeq(background_tasks, 1, i - 1)
         \o SubSeq(background_tasks, i + 1, Len(background_tasks))
  /\ last_sync_status' = [last_sync_status EXCEPT !.in_progress = TRUE]
  /\ job' =
       Some([username |-> background_tasks[i].username,
             password |-> background_tasks[i].password,
             max_pages |-> background_tasks[i].max_pages,
             pc |-> IF Truthy(error) THEN "return" ELSE "while",
             has_next_page |-> TRUE, end_cursor |-> None, page_count |-> 0,
             requested |-> <<>>, pages |-> <<>>, all_announcements |-> 0,
             result |->
               IF Truthy(error)
               THEN Some([success |-> FALSE, error |-> error,
                          announcements_processed |-> 0,
                          announcements_saved |-> 0])
               ELSE None])
  /\ UNCHANGED <<airtable, store, call, stages, response, previous, create,
                 sync, calendar, histories, chat, reply, inbox>>

\* A fetch loop that does not read hasNextPage.
FetchPageAlwaysNext(result) ==
  /\ job # None
  /\ Val(job).pc = "while"
  /\ Val(job).max_pages # None
  /\ Val(job).has_next_page
  /\ Val(job).page_count < Val(Val(job).max_pages)
  /\ job' =
       Some(IF Truthy(result.error)
            THEN [Val(job) EXCEPT
                    !.requested = Append(@, Val(job).end_cursor),
                    !.pages = Append(@, result),
                    !.pc = "process"]
            ELSE [Val(job) EXCEPT
                    !.requested = Append(@, Val(job).end_cursor),
                    !.pages = Append(@, result),
                    !.all_announcements = @ + result.announcements,
                    !.has_next_page = TRUE,
                    !.end_cursor = result.endCursor,
                    !.page_count = @ + 1])
  /\ UNCHANGED <<airtable, store, call, stages, response, previous, create,
                 sync, calendar, histories, chat, last_sync_status,
                 background_tasks, reply, inbox>>

\* One turn of the fetch loop of execute, when the loop test passes and
\* fetch_paginated_announcements returns result: a page with an error
\* leaves the loop, any other page is added and sets has_next_page,
\* end_cursor and page_count.
FetchPage(result) ==
  /\ job # None
  /\ Val(job).pc = "while"
  /\ Val(job).max_pages # None
  /\ Val(job).has_next_page
  /\ Val(job).page_count < Val(Val(job).max_pages)
  /\ job' =
       Some(IF Truthy(result.error)
            THEN [Val(job) EXCEPT
                    !.requested = Append(@, Val(job).end_cursor),
                    !.pages = Append(@, result),
                    !.pc = "process"]
            ELSE [Val(job) EXCEPT
                    !.requested = Append(@, Val(job).end_cursor),
                    !.pages = Append(@, result),
                    !.all_announcements = @ + result.announcements,
                    !.has_next_page = result.hasNextPage,
                    !.end_cursor = result.endCursor,
                    !.page_count = @ + 1])
  /\ UNCHANGED <<airtable, store, call, stages, response, previous, create,
                 sync, calendar, histories, chat, last_sync_status,
                 background_tasks, reply, inbox>>

\* The rest of run_sync_task, from the point where no further page is
\* requested: the loop test of execute fails, or raises TypeError when
\* max_pages is None, or the loop was left, or execute had returned on the
\* authentication error.  execute processes the announcements it fetched
\* and saves them, which succeeds for each when Airtable is up;
\* run_sync_task records the outcome and, in its finally clause, clears
\* in_progress.
FinishSyncTask ==
  /\ job # None
  /\ IF Val(job).pc = "while" /\ Val(job).max_pages # None
     THEN ~(Val(job).has_next_page
              /\ Val(job).page_count < Val(Val(job).max_pages))
     ELSE TRUE
  /\ \E raised \in {IF Val(job).pc = "while" /\ Val(job).max_pages = None
                    THEN Some("'<' not supported between instances of 'int' and 'NoneType'")
                    ELSE None} :
     \E result \in {IF raised # None THEN None
                    ELSE IF Val(job).pc = "return" THEN Val(job).result
                    ELSE Some([success |-> TRUE,
                               announcements_processed |-> Val(job).all_announcements,
                               announcements_saved |->
                                 IF airtable = "up"
                                 THEN Val(job).all_announcements ELSE 0])} :
       last_sync_status' =
         IF raised # None
         THEN [in_progress |-> FALSE, success |-> Some(FALSE),
               message |-> <<"Synchronization failed with an exception: ",
                             Val(raised)>>,
               details |-> Some([error |-> Val(raised)])]
         ELSE [in_progress |-> FALSE,
               success |-> Some(Val(result).success),
               message |->
                 IF Val(result).success
                 THEN <<"Synchronization completed successfully">>
                 ELSE <<"Synchronization failed: ", Val(Val(result).error)>>,
               details |->
                 Some([announcements_processed |->
                         Val(result).announcements_processed,
                       announcements_saved |->
                         Val(result).announcements_saved])]
  /\ job' = None
  /\ UNCHANGED <<airtable, store, call, stages, response, previous, create,
                 sync, calendar, histories, chat, background_tasks, reply,
                 inbox>>

SyncNext ==
  \/ Receive([route |-> "sync", username |-> None, password |-> None,
              max_pages |-> None, during |-> FALSE])
  \/ Receive([route |-> "sync", username |-> Some("teacher"),
              password |-> Some("secret"), max_pages |-> Some(MaxPages),
              during |-> FALSE])
  \/ \E api_key \in {Some("key"), Some("wrong")} :
        Receive([route |-> "cron", api_key |-> api_key, during |-> FALSE])
  \/ \E username \in {"", "parent"} :
        SyncData([SCHOOLCONNECT_USERNAME |-> username,
                  SCHOOLCONNECT_PASSWORD |-> IF username = "" THEN "" ELSE "secret",
                  CRON_API_KEY |-> "key"])
  \/ \E username \in {"", "parent"}, max_pages \in 0..MaxPages :
        CronSyncData([SCHOOLCONNECT_USERNAME |-> username,
                      SCHOOLCONNECT_PASSWORD |-> IF username = "" THEN "" ELSE "secret",
                      CRON_API_KEY |-> "key"],
                     [max_pages |-> max_pages])
  \/ \E i \in 1..MaxRequests,
        error \in {None, Some(<<"Authentication failed. Please check your credentials.">>)} :
        RunSyncTask(i, error)
  \/ \E result \in
          {[announcements |-> 1, hasNextPage |-> TRUE,
            endCursor |-> Some("cursor1"), error |-> None],
           [announcements |-> 1, hasNextPage |-> TRUE,
            endCursor |-> Some("cursor2"), error |-> None],
           [announcements |-> 1, hasNextPage |-> FALSE,
            endCursor |-> Some("cursor3"), error |-> None],
           [announcements |-> 0, hasNextPage |-> FALSE,
            endCursor |-> None, error |-> Some(<<"timeout">>)],
           [announcements |-> 0, hasNextPage |-> FALSE,
            endCursor |-> None, error |-> Some(<<>>)]} :
        FetchPage(result)
  \/ FinishSyncTask

\* The steps of run_sync_task are taken: the framework runs the tasks a
\* handler added once its response is sent, execute is synchronous code
\* whose requests have a timeout, and nothing else runs on the event loop
\* before run_sync_task returns.  Requests need not arrive.
SyncSpec ==
  /\ SyncInit
  /\ [][SyncNext]_vars
  /\ WF_vars(SyncNext /\ job' # job)

(* ------------------------------- claims -------------------------------- *)

\* The local variables of the call that has just returned.
Last == Val(stages)

\* A call has returned that got behind the connection check and did not
\* end in an exception.
Filtered == ~IsNone(stages) /\ ~Last.raised

\* The text stage of the call ran.
Ranked == Filtered /\ Last.text_applied

\* original_phrase of the call: its search text, lower-cased and stripped.
Phrase == Strip(Lower(Val(Last.search_text)))

\* The score the text stage gave record r in the call.
LastScore(r) == ScoreOf(r, Val(Last.search_text))

\* How often record r stands in a list.
CountIn(list, r) == Cardinality({i \in 1..Len(list) : list[i] = r})

\* The records of a list.
Records(list) == {list[i] : i \in 1..Len(list)}

\* p is a substring of the lower-cased title, description or sender of r,
\* joined by spaces.
Occurs(p, r) == Contains(p, CombinedText(r))

\* sender_name, lower-cased, is a substring of the lower-cased sender of r.
SentBy(r, sender_name) ==
  Contains(Lower(sender_name), Lower(Field(r, "SentByUser")))

\* C1: when search_text is given and the sender and/or date filter left the
\* working set empty, the text search runs over all records; so for a
\* sender_name that matches no record and a search_text that occurs in at
\* least one record, the final result is not empty.
C1_Fallback ==
  Filtered =>
    /\ (/\ Truthy(Last.search_text)
        /\ (Last.sender_applied \/ Last.date_applied)
        /\ Len(Last.after_date) = 0)
       => /\ Last.text_in = Last.all
          /\ \A r \in Records(Last.all) :
               LastScore(r) > 0 <=> r \in Records(Last.final)
    /\ (/\ Truthy(Last.search_text)
        /\ Last.sender_applied
        /\ \A r \in Records(Last.all) : ~SentBy(r, Val(Last.sender_name))
        /\ \E r \in Records(Last.all) : Occurs(Phrase, r))
       => /\ Len(Last.final) > 0
          /\ Val(response).count > 0
          /\ Val(response).announcements = Last.final

\* C1: a call with a sender that matches none of the records of the table
\* has fallen back to all records and returned some of them.
C1_Witness ==
  /\ Filtered
  /\ Last.sender_applied
  /\ Len(Last.all) > 0
  /\ Len(Last.after_sender) = 0
  /\ Last.fallback
  /\ Len(Last.final) > 0

\* C2: a date_query that no stage of the date parser understands gives zero
\* results and an error that says so.
C2_UnparsedIsError ==
  (/\ ~IsNone(stages)
   /\ Last.date_applied
   /\ DateQueryKind(Val(Last.date_query), Val(call).now) = "unparsed")
  => /\ Val(response).count = 0
     /\ Val(response).key = "error"

\* The points each tier alone gives record r for the phrase of the call; 0
\* when the tier does not match.
ExactPoints(r) ==
  IF Occurs(Phrase, r)
  THEN IF Contains(Phrase, Lower(Field(r, "Title"))) THEN 150 ELSE 100
  ELSE 0

CleanPoints(r) ==
  IF Len(CleanPhrase(Phrase)) > 0 /\ Occurs(CleanPhrase(Phrase), r)
  THEN IF Contains(CleanPhrase(Phrase), Lower(Field(r, "Title")))
       THEN 120 ELSE 80
  ELSE 0

MultiPoints(r) ==
  IF Len(SearchKeywords(Phrase)) > 1
  THEN MultiKeywordScore(
         KeywordMatchesHalves(SearchKeywords(Phrase), CombinedText(r),
                              Lower(Field(r, "Title"))))
  ELSE 0

SinglePoints(r) ==
  FirstKeywordScore(SearchKeywords(Phrase), CombinedText(r),
                    Lower(Field(r, "Title")))

\* C3: the tiers are mutually exclusive: the score of a record is the
\* points of one tier, or 0, never a sum; a record whose combined text has
\* the phrase scores exactly 100, or 150 with the phrase in the title.
C3_TiersExclusive ==
  Ranked =>
    \A r \in Records(Last.text_in) :
      \A score \in {LastScore(r)} :
        /\ score \in {0, ExactPoints(r), CleanPoints(r), MultiPoints(r),
                       SinglePoints(r)}
        /\ Occurs(Phrase, r) => score = ExactPoints(r) /\ score \in {100, 150}

\* C3: the text stage scored a record that has the whole phrase and whose
\* keywords also reach the multiple-keyword threshold.
C3_Witness ==
  /\ Ranked
  /\ \E r \in Records(Last.text_in) :
       /\ Occurs(Phrase, r)
       /\ MultiPoints(r) >= 60
       /\ LastScore(r) = 100

\* C4: when neither the phrase, nor the clean phrase, nor the
\* multiple-keyword threshold matched and a keyword occurs in the combined
\* text, the score is 20, or 30 with the first such keyword in the title,
\* however many keywords the phrase has.
C4_SingleKeywordReached ==
  Ranked =>
    \A r \in Records(Last.text_in) :
      (/\ ExactPoints(r) = 0
       /\ CleanPoints(r) = 0
       /\ MultiPoints(r) = 0
       /\ SinglePoints(r) > 0)
      => LastScore(r) = SinglePoints(r)

\* Every token of the phrase is a stop word or has at most 2 characters.
NoKeywords(p) ==
  \A i \in 1..Len(Split(p)) :
    Split(p)[i] \in STOP_WORDS \/ Len(Split(p)[i]) <= 2

\* C5 as stated: for a phrase that is empty or has no keyword, every record
\* scores 0 and the text stage returns no record.
C5_NoKeywordsNoResult ==
  (/\ Filtered
   /\ ~IsNone(Val(call).search_text)
   /\ NoKeywords(Strip(Lower(Val(Val(call).search_text)))))
  => /\ \A r \in Records(Last.text_in) :
          ScoreOf(r, Val(Val(call).search_text)) = 0
     /\ Len(Last.final) = 0

\* C5, amended: for a phrase that is not empty and has no keyword, a record
\* scores 0 and is left out exactly when its combined text has neither the
\* phrase nor the non-empty clean phrase; a record that has the phrase
\* scores 100 or 150.  For a phrase that is empty the text stage does not
\* run, and the working set stays as the other filters left it.
C5_NoKeywords ==
  /\ (Ranked /\ NoKeywords(Phrase))
     => \A r \in Records(Last.text_in) :
          \A score \in {LastScore(r)} :
            /\ score = IF Occurs(Phrase, r) THEN ExactPoints(r)
                       ELSE CleanPoints(r)
            /\ score > 0 <=> r \in Records(Last.final)
  /\ (/\ Filtered
      /\ ~IsNone(Val(call).search_text)
      /\ Len(Strip(Lower(Val(Val(call).search_text)))) = 0)
     => /\ ~Last.text_applied
        /\ Last.final = Last.after_date
        /\ Val(response).announcements = Last.after_date

\* C5: the text stage ran with a phrase of stop words only over a record
\* that has the phrase and a record that does not.
C5_Witness ==
  /\ Ranked
  /\ NoKeywords(Phrase)
  /\ \E r \in Records(Last.text_in) : LastScore(r) >= 100
  /\ \E r \in Records(Last.text_in) :
       LastScore(r) = 0 /\ r \notin Records(Last.final)

\* C6: a record whose full title equals the non-empty search_text, case
\* ignored, scores at least 100 and is in the ranked result.
C6_TitleMatch ==
  Ranked =>
    \A r \in Records(Last.text_in) :
      (/\ Len(Val(Val(call).search_text)) > 0
       /\ Lower(Val(Val(call).search_text)) = Lower(Field(r, "Title")))
      => /\ LastScore(r) >= 100
         /\ r \in Records(Last.final)

\* C6: the search text was a title in other letter case, and the record
\* was returned.
C6_Witness ==
  /\ Ranked
  /\ \E r \in Records(Last.text_in) :
       /\ Val(Val(call).search_text) # Field(r, "Title")
       /\ Lower(Val(Val(call).search_text)) = Lower(Field(r, "Title"))
       /\ r \in Records(Last.final)

\* C7: the output of the text stage has exactly the candidates of score
\* above 0, each as often as the input has it, highest score first.
C7_PositiveScoresRanked ==
  Ranked =>
    /\ \A r \in Records(Last.text_in) \cup Records(Last.final) :
         CountIn(Last.final, r) =
           IF LastScore(r) > 0 THEN CountIn(Last.text_in, r) ELSE 0
    /\ \A i \in 1..Len(Last.final) : \A j \in i..Len(Last.final) :
         LastScore(Last.final[i]) >= LastScore(Last.final[j])

\* C7: the text stage left out a record of score 0 and kept another.
C7_Witness ==
  /\ Ranked
  /\ Len(Last.final) > 0
  /\ \E r \in Records(Last.text_in) :
       LastScore(r) = 0 /\ r \notin Records(Last.final)

\* The records of a list that scored v, in list order.
WithScore(list, v) == SelectSeq(list, LAMBDA r : LastScore(r) = v)

\* C8: records of equal score keep the relative order of the input.
C8_StableSort ==
  Ranked =>
    \A r \in Records(Last.final) :
      \A v \in {LastScore(r)} :
        WithScore(Last.final, v) = WithScore(Last.text_in, v)

\* C8: two different records of equal score were ranked.
C8_Witness ==
  /\ Ranked
  /\ Len(Last.final) >= 2
  /\ Last.final[1] # Last.final[2]
  /\ LastScore(Last.final[1]) = LastScore(Last.final[2])

\* The call of the end-to-end scenario over the table of its two records.
LemonadeScenario ==
  /\ airtable = "up"
  /\ store = <<LemonadeSale, MathTest>>
  /\ ~IsNone(call)
  /\ Val(call).search_text = Some(<<"l", "e", "m", "o", "n", "a", "d", "e", " ", "c", "o", "o", "k", "i", "e", " ", "s", "a", "l", "e">>)
  /\ Val(call).sender_name = Some(<<"S", "i", "e", "r", "r", "a">>)
  /\ Val(call).date_query = Some(<<"i", "n", " ", "M", "a", "y">>)

\* The tier that scored record r in the call.
LastTier(r) ==
  ScoreTier(CombinedText(r), Lower(Field(r, "Title")), Phrase,
            CleanPhrase(Phrase), SearchKeywords(Phrase))

\* C9 as stated: both filters pass both records, record 1 scores 80 or more
\* through the clean-phrase tier, record 2 scores 0, and the result is
\* record 1 alone.
C9_CleanPhraseTier ==
  LemonadeScenario =>
    /\ Last.after_sender = store
    /\ Last.after_date = store
    /\ LastTier(LemonadeSale) = "clean"
    /\ LastScore(LemonadeSale) >= 80
    /\ LastScore(MathTest) = 0
    /\ Val(response).announcements = <<LemonadeSale>>
    /\ Val(response).count = 1

\* C9, amended: the sender filter passes both records; the date filter
\* passes both when the current year is 2025 and neither in another year,
\* where the fallback searches all records; record 1 scores 85 through the
\* multiple-keyword tier, record 2 scores 0, and the result is record 1
\* alone with count 1.
C9_Lemonade ==
  LemonadeScenario =>
    /\ ~Last.raised
    /\ Last.after_sender = store
    /\ Last.after_date = IF Val(call).now.year = 2025 THEN store ELSE <<>>
    /\ Last.fallback <=> Val(call).now.year # 2025
    /\ Last.text_in = store
    /\ LastTier(LemonadeSale) = "multi"
    /\ LastScore(LemonadeSale) = 85
    /\ LastScore(MathTest) = 0
    /\ Val(response).announcements = <<LemonadeSale>>
    /\ Val(response).count = 1
    /\ Val(response).key = "message"

\* C9: the scenario has run in 2025, with both records behind both filters.
C9_Witness ==
  /\ LemonadeScenario
  /\ Val(call).now.year = 2025
  /\ Last.after_date = store
  /\ Last.final = <<LemonadeSale>>

\* The order-keeping sub-lists: every element of sub is taken from list,
\* in list order.
RECURSIVE IsSubList(_, _)
IsSubList(sub, list) ==
  IF Len(sub) = 0 THEN TRUE
  ELSE IF Len(list) = 0 THEN FALSE
  ELSE IF sub[1] = list[1] THEN IsSubList(Tail(sub), Tail(list))
  ELSE IsSubList(sub, Tail(list))

DateRan == ~IsNone(stages) /\ Last.date_applied

\* The range of the date stage of the call, or None.
LastRange == AppliedRange(Val(Last.date_query), Val(call).now)

\* The date stage of the call filtered by a range.
RangeApplied == DateRan /\ ~IsNone(LastRange)

\* The parsed SentTime of record r, or None.
SentTimeOf(r) == _parse_sent_time(Field(r, "SentTime"))

\* The SentTime of r is missing or does not parse.
NoSentTime(r) == IsNone(SentTimeOf(r))

\* The SentTime of r parses and carries no UTC offset.
NaiveSentTime(r) == ~NoSentTime(r) /\ ~Val(SentTimeOf(r)).aware

\* The SentTime of r parses and start <= SentTime < end, a SentTime without
\* offset read as UTC.
Within(r, start, end) ==
  \E sent_time \in {SentTimeOf(r)} :
    /\ ~IsNone(sent_time)
    /\ DtLeq(start, AsUTC(Val(sent_time)))
    /\ DtLess(AsUTC(Val(sent_time)), end)

\* The records of a list that lie within [start, end), in the list's order.
RecordsWithin(list, start, end) ==
  SelectSeq(list, LAMBDA r : Within(r, start, end))

\* C11: the date filter applied with range [A, B) keeps a record whose
\* SentTime parses exactly when A <= SentTime < B, and returns no record
\* whose SentTime is before A or at/after B: the working set behind the date
\* stage is the working set before it, restricted to the records within
\* [A, B).
C11_HalfOpen ==
  RangeApplied =>
    \E range \in {Val(LastRange)} :
      Last.after_date = RecordsWithin(Last.after_sender, range[1], range[2])

\* C12: a record whose SentTime carries no UTC offset is compared as a UTC
\* instant, kept or dropped accordingly, and the call completes without an
\* error.
C12_NaiveAsUTC ==
  RangeApplied =>
    \E range \in {Val(LastRange)} :
      \A r \in Records(Last.after_sender) :
        NaiveSentTime(r) =>
          /\ ~Last.raised
          /\ Val(response).key = "message"
          /\ (r \in Records(Last.after_date) <=> Within(r, range[1], range[2]))

\* The records of a list whose SentTime parses, in the list's order.
WithSentTime(list) == SelectSeq(list, LAMBDA r : ~NoSentTime(r))

\* C13: a record whose SentTime is missing or does not parse is left out of
\* the date-filtered result, causes no error (the date stage raises only
\* over a record whose SentTime did parse), and has no effect on the other
\* records: the date stage ends as it ends over the working set without
\* such records.
C13_UnparsedExcluded ==
  RangeApplied =>
    /\ \A r \in Records(Last.after_date) : ~NoSentTime(r)
    /\ Last.raised => \E r \in Records(Last.after_sender) : NaiveSentTime(r)
    /\ \E outcome \in {_filter_by_date(WithSentTime(Last.after_sender),
                                       Val(Last.date_query), Val(call).now)} :
         /\ outcome.raised = Last.raised
         /\ outcome.announcements = Last.after_date

\* C13's case: the date stage was given a record without a usable SentTime
\* next to one it kept.
C13_Witness ==
  /\ RangeApplied
  /\ ~Last.raised
  /\ \E r \in Records(Last.after_sender) : NoSentTime(r)
  /\ Len(Last.after_date) > 0

\* The date query of the call, lower-cased and stripped.
DateQuery == Strip(Lower(Val(Last.date_query)))

\* The months whose full name is a substring of the date query of the call.
NamedMonths == {m \in 1..12 : Contains(month_names[m], DateQuery)}

\* The first of them, January to December.
NamedMonth == CHOOSE m \in NamedMonths : \A k \in NamedMonths : m <= k

\* How the date stage of the call ended: raised, or the list it returned.
DateOutcome == [raised |-> Last.raised, announcements |-> Last.after_date]

\* The first day of month m of year y at 00:00 UTC.
FirstOfMonth(m, y) == DateTime(y, m, 1, 0, 0, 0, 0, TRUE)

\* [first day of month m of year y, first day of the month after it): the
\* end is the start and the days of the month.
WholeMonth(m, y) ==
  <<FirstOfMonth(m, y), AddDays(FirstOfMonth(m, y), DaysInMonth(y, m))>>

\* C14: a date query naming month m, evaluated in year Y, yields the UTC
\* range [first day of m in Y at 00:00, first day of the following month at
\* 00:00), and the date stage filters by it; every month has that range,
\* January [Y-01-01, Y-02-01) and December [Y-12-01, (Y+1)-01-01).
C14_MonthRange ==
  (DateRan /\ NamedMonths # {}) =>
    \E y \in {Val(call).now.year} :
      /\ LastRange = Some(WholeMonth(NamedMonth, y))
      /\ DateOutcome = _filter_by_date_range(Last.after_sender,
                                             WholeMonth(NamedMonth, y)[1],
                                             WholeMonth(NamedMonth, y)[2])
      /\ \A m \in 1..12 : MonthRange(m, Val(call).now) = WholeMonth(m, y)
      /\ MonthRange(1, Val(call).now) = <<FirstOfMonth(1, y), FirstOfMonth(2, y)>>
      /\ MonthRange(12, Val(call).now) = <<FirstOfMonth(12, y), FirstOfMonth(1, y + 1)>>

\* C14's case: "December" asked in 2025 keeps the record of
\* 2025-12-31T23:30:00Z.
C14_Witness ==
  /\ DateRan
  /\ NamedMonths = {12}
  /\ Val(call).now.year = 2025
  /\ WinterConcert \in Records(Last.after_date)

\* The date stage over the working set by a range of optional bounds that
\* are both set.
ByRange(range) ==
  _filter_by_date_range(Last.after_sender, Val(range[1]), Val(range[2]))

\* The date stage over the working set by the single date d.
BySingleDate(d) ==
  _filter_by_date_range(Last.after_sender, d, AddDays(d, 1))

\* C15: the month-name check comes first: a date query that contains a full
\* month name is filtered by that whole month of the current year, whatever
\* else it contains; only a query without a month name is filtered by the
\* range extracted from it, and only one without such a range by the single
\* date parsed from it.
C15_MonthFirst ==
  DateRan =>
    IF NamedMonths # {}
    THEN DateOutcome = _filter_by_month(Last.after_sender, NamedMonth, Val(call).now)
    ELSE \E range \in {extract_date_time_range(DateQuery, Val(call).now)} :
           IF BothSet(range) THEN DateOutcome = ByRange(range)
           ELSE \E single_date \in {parse_date_time(DateQuery, Val(call).now)} :
                  IF ~IsNone(single_date)
                  THEN DateOutcome = BySingleDate(Val(single_date))
                  ELSE DateOutcome = Returned(Last.after_sender)

\* C15's case: "last week in May", asked on 2025-05-11, keeps the record of
\* 2025-05-10, which is in May and not in the week before.
C15_Witness ==
  /\ DateRan
  /\ Contains(<<"l", "a", "s", "t", " ", "w", "e", "e", "k">>, DateQuery)
  /\ NamedMonths = {5}
  /\ Val(call).now.year = 2025
  /\ LemonadeSale \in Records(Last.after_date)

\* The date query of the call is a single absolute date: it names no month,
\* is no relative period, and datetime.fromisoformat reads it.
SingleAbsoluteDate ==
  /\ DateRan
  /\ NamedMonths = {}
  /\ \A i \in 1..Len(relative_periods) : DateQuery # relative_periods[i]
  /\ ~IsNone(FromIsoFormat(DateQuery))

\* C16: a date query that is a single absolute date and parses to instant d
\* yields the range [d, d + 1 day): the date stage keeps a record exactly
\* when d <= SentTime < d + 1 day.
C16_SingleDate ==
  (SingleAbsoluteDate /\ ~Last.raised) =>
    \E d \in {AsUTC(Val(FromIsoFormat(DateQuery)))} :
      Last.after_date = RecordsWithin(Last.after_sender, d, AddDays(d, 1))

\* x is absent, empty or blank.
Blank(x) == IsNone(x) \/ Len(Strip(Val(x))) = 0

\* The call that has just returned was given no criterion.
NoCriteria ==
  /\ call # None
  /\ Blank(Val(call).search_text)
  /\ Blank(Val(call).sender_name)
  /\ Blank(Val(call).date_query)

\* C17: a call without search_text, sender_name and date_query (each absent,
\* empty or blank), over a table the client reads, returns every record of
\* the table, in the table's order, with count the number of records: no
\* stage filters or scores, and the message names no filter.
C17_NoCriteria ==
  (NoCriteria /\ airtable = "up") =>
    /\ ~IsNone(stages)
    /\ ~Last.sender_applied /\ ~Last.date_applied /\ ~Last.text_applied
    /\ Val(response).announcements = store
    /\ Val(response).count = Len(store)
    /\ Val(response).key = "message"
    /\ Val(response).text = Text("found", Len(store), <<>>)

\* C17's case: a blank search_text and a blank date_query over a table of
\* two records.
C17_Witness ==
  /\ NoCriteria
  /\ Val(call).search_text = Some(<<" ", " ">>)
  /\ Val(call).date_query = Some(<<" ", " ", " ">>)
  /\ Len(store) = 2
  /\ Val(response).count = 2

\* C18: a failure of the record store, the connection not initialized or
\* the fetch of the records failing, is answered with no announcements and
\* an error, never with a "Found 0 announcements" message.
C18_StoreFailureIsError ==
  (call # None /\ airtable # "up") =>
    /\ Val(response).key = "error"
    /\ Val(response).count = 0
    /\ Val(response).announcements = <<>>

\* C19: every call returns a dictionary of count, announcements and either
\* a message or an error, with count the number of announcements; an
\* exception raised inside the call is answered with an error; an error
\* answer has count 0 and no announcements.
C19_ResponseShape ==
  call # None =>
    /\ DOMAIN Val(response) = {"count", "announcements", "key", "text"}
    /\ Val(response).key \in {"message", "error"}
    /\ Val(response).count = Len(Val(response).announcements)
    /\ (IsNone(stages) \/ Last.raised) => Val(response).key = "error"
    /\ Val(response).key = "error" =>
         /\ Val(response).count = 0
         /\ Val(response).announcements = <<>>

\* C19's case: the date filter raised over a working set that was not
\* empty, and the call returned an error.
C19_Witness ==
  /\ ~IsNone(stages)
  /\ Last.raised
  /\ Len(Last.after_sender) > 0
  /\ Val(response).key = "error"

\* The latest call repeats the one before it.
Repeated == previous # None

\* Both calls read the clock on the same day.
SameDay ==
  /\ Val(previous).now.year = Val(call).now.year
  /\ Val(previous).now.month = Val(call).now.month
  /\ Val(previous).now.day = Val(call).now.day

Satisfies(r, step) ==
  CASE step.filter = "sender" -> SentBy(r, step.value)
    [] step.filter = "date" ->
         /\ ~IsNone(LastRange)
         /\ Within(r, Val(LastRange)[1], Val(LastRange)[2])
    [] step.filter = "text" -> LastScore(r) > 0

\* C28: every record a call returns satisfies every criterion its message
\* lists as applied, and the count in the message is the number of records
\* returned.
C28_MessageFaithful ==
  (~IsNone(stages) /\ Val(response).key = "message") =>
    /\ Val(response).text.count = Len(Val(response).announcements)
    /\ \A i \in 1..Len(Val(response).text.filter_steps) :
         \A r \in Records(Val(response).announcements) :
           Satisfies(r, Val(response).text.filter_steps[i])

\* C21: the list a call returns is deduplicated: whatever the table holds,
\* also the same announcement more than once, and whatever the criteria,
\* no announcement stands twice in it.
C21_Deduplicated ==
  call # None =>
    \A r \in Records(Val(response).announcements) :
      CountIn(Val(response).announcements, r) = 1

\* The place of a tier in the documented priority.
TierRank(tier) ==
  CASE tier = "exact" -> 4 [] tier = "clean" -> 3 [] tier = "multi" -> 2
    [] tier = "single" -> 1

\* C26: for one search phrase, a record matched at a tier of higher
\* priority has a strictly higher score than a record matched at a tier of
\* lower priority only.
C26_TierPriority ==
  Ranked =>
    \A r1 \in Records(Last.text_in), r2 \in Records(Last.text_in) :
      (/\ LastScore(r1) > 0
       /\ LastScore(r2) > 0
       /\ TierRank(LastTier(r1)) > TierRank(LastTier(r2)))
        => LastScore(r1) > LastScore(r2)

(* ----------------------- claims about the arithmetic ----------------------- *)

\* The keywords of the phrase that the combined text of r has, by their
\* place in the list, and those of them that the title of r has too.
FoundKeywords(r) ==
  {i \in 1..Len(SearchKeywords(Phrase)) : Occurs(SearchKeywords(Phrase)[i], r)}

FoundInTitle(r) ==
  {i \in FoundKeywords(r) :
     Contains(SearchKeywords(Phrase)[i], Lower(Field(r, "Title")))}

\* Twice the count of the multiple-keyword tier: 2 for each keyword found,
\* 1 more for each of those the title has.
TwiceCount(r) == 2 * Cardinality(FoundKeywords(r)) + Cardinality(FoundInTitle(r))

\* C27: for a record that matched neither phrase, under a phrase of two or
\* more keywords, the score is 60 + 10 x (count - 2) when count >= 2 and 0
\* otherwise, on the fractional count (twice the score is 120 + 10 x (twice
\* the count - 4)); and every score is a whole number, not negative.
C27_MultiKeywordArithmetic ==
  Ranked =>
    \A r \in Records(Last.text_in) :
      /\ LastScore(r) \in Nat
      /\ LastTier(r) = "multi" =>
           /\ LastScore(r) > 0 <=> TwiceCount(r) >= 4
           /\ TwiceCount(r) >= 4
                => 2 * LastScore(r) = 120 + 10 * (TwiceCount(r) - 4)

\* A record matched in the multiple-keyword tier with a count that is not
\* whole.
C27_Witness ==
  /\ Ranked
  /\ \E r \in Records(Last.text_in) :
       /\ LastTier(r) = "multi"
       /\ TwiceCount(r) >= 4
       /\ TwiceCount(r) % 2 = 1
       /\ r \in Records(Val(response).announcements)

(* ------------------------- claims about ingestion ------------------------- *)

\* The number of records of the table whose AnnouncementId is id.
Stored(id) == Cardinality({i \in 1..Len(store) : store[i].AnnouncementId = id})

\* C22: after any sequence of create_record calls, failures of the existence
\* check included, the table holds at most one record per AnnouncementId, and
\* a call for an id the table holds returns the 'existing' marker and leaves
\* the table as it was.
C22_OnePerId ==
  /\ \A i \in 1..Len(store) :
       Truthy(store[i].AnnouncementId) => Stored(store[i].AnnouncementId) = 1
  /\ (create # None /\ Val(create).pc = "return" /\ airtable # "none"
        /\ Truthy(Val(create).record_data.AnnouncementId)
        /\ Val(create).result # None)
       => (Val(Val(create).result).id = "existing"
             \/ Stored(Val(create).record_data.AnnouncementId) = 1)

(* ------------------- claims about the calendar integration ------------------- *)

\* C23: run_sync_job completes with status 'completed' and has marked every
\* unprocessed announcement of the store as processed.
C23_SyncCompletes ==
  sync # None =>
    /\ Val(sync).status = Some("completed")
    /\ \A i \in 1..Len(store) : store[i].CalendarProcessed

\* The calendar reports that it created the event.
Created(result) ==
  \/ result.type = "dict" /\ result.success
  \/ result.type = "str"
       /\ MatchAt(<<"S", "u", "c", "c", "e", "s", "s", "f", "u", "l", "l", "y", " ", "c", "r", "e", "a", "t", "e", "d">>,
                  result.text, 1)

\* The id under which the calendar reports the event: the event_id of the
\* dictionary, or what follows the last "ID: " of the string.
IdOf(result) ==
  IF result.type = "dict" THEN result.event_id
  ELSE LET text == result.text
           i == CHOOSE k \in 1..Len(text) :
                  /\ MatchAt(<<"I", "D", ":", " ">>, text, k)
                  /\ \A l \in (k + 1)..Len(text) : ~MatchAt(<<"I", "D", ":", " ">>, text, l)
       IN Some(SubSeq(text, i + 4, Len(text)))

\* SUPPLIES NEEDED is present and not 'None', and REMINDER DATE is present
\* and not 'N/A' or 'Unknown'.
SuppliesDue(d) ==
  /\ d.SUPPLIES_NEEDED \notin {None, Some(<<>>), Some(<<"N", "o", "n", "e">>)}
  /\ d.REMINDER_DATE \notin {None, Some(<<>>), Some(<<"N", "/", "A">>),
                             Some(<<"U", "n", "k", "n", "o", "w", "n">>)}

MainCreated ==
  /\ Len(Val(calendar).calls) >= 1
  /\ Val(calendar).calls[1].event = "main"
  /\ Created(Val(calendar).calls[1].result)

ReminderCreated ==
  /\ Len(Val(calendar).calls) = 2
  /\ Val(calendar).calls[2].event = "reminder"
  /\ Created(Val(calendar).calls[2].result)

HistoryOf(h, s) == IF s \in DOMAIN h THEN h[s] ELSE <<>>

\* C25: a chat request with message m in session s appends to the history of
\* s exactly ('user', m) and then ('assistant', r), where r is the reply
\* returned to the caller and is the text AgentManager.execute produced for
\* m; the histories of the other sessions are unchanged.
C25_ChatAppends ==
  chat # None =>
    /\ HistoryOf(histories, Val(chat).session_id)
         = HistoryOf(Val(chat).histories, Val(chat).session_id)
             \o <<<<"user", Val(chat).message>>,
                  <<"assistant", Val(chat).response>>>>
    /\ Val(chat).response = Val(chat).result.response
    /\ \A s \in (DOMAIN histories \cup DOMAIN Val(chat).histories)
                  \ {Val(chat).session_id} :
         HistoryOf(histories, s) = HistoryOf(Val(chat).histories, s)

(* ------------------------ claims on the ingestion sync ----------------------- *)

\* C29: at most one ingestion sync job is accepted and run at a time.  A
\* POST /sync or POST /cron that arrives after a sync was accepted and
\* before that sync finished is not answered with a started job (it is
\* rejected with "A synchronization job is already in progress" when it
\* passes the checks of its key), no two accepted syncs are unfinished
\* together, and in_progress is false whenever no run_sync_task is running,
\* whether the last one succeeded or raised.
C29_OneSyncAtATime ==
  /\ reply # None /\ Val(reply).during /\ "success" \in DOMAIN Val(reply)
       => /\ ~Val(reply).success
          /\ Val(reply).details.status = "error"
               \/ Val(reply).message = "A synchronization job is already in progress"
  /\ Len(background_tasks) + (IF job = None THEN 0 ELSE 1) <= 1
  /\ job = None => ~last_sync_status.in_progress

\* What holds of a run of execute at each of its steps: it has requested at
\* most max_pages pages; each page after the first was requested with the
\* endCursor the page before it returned; every page before the last one
\* requested reported no error and hasNextPage true; and after an
\* authentication failure it has requested no page and returns success
\* false with zero announcements processed and saved.
FetchWithinBounds ==
  job # None =>
    LET j == Val(job) IN
      /\ Len(j.pages) = Len(j.requested)
      /\ j.max_pages # None => Len(j.requested) <= Val(j.max_pages)
      /\ \A k \in 1..(Len(j.requested) - 1) :
           /\ j.requested[k + 1] = j.pages[k].endCursor
           /\ j.pages[k].error = None
           /\ j.pages[k].hasNextPage
      /\ j.pc = "return" =>
           /\ j.requested = <<>>
           /\ j.result # None
           /\ ~Val(j.result).success
           /\ Val(j.result).announcements_processed = 0
           /\ Val(j.result).announcements_saved = 0

\* C30: the fetch loop of execute ends after requesting at most max_pages
\* pages: page k+1 is requested only with the endCursor of page k, no page is
\* requested after one that reported an error or hasNextPage false, an
\* authentication failure returns success false with nothing processed or
\* saved and without a page fetched, and every run that started ends.
C30_FetchTerminates ==
  /\ []FetchWithinBounds
  /\ (job # None) ~> (job = None)

\* A run that stopped because it had requested max_pages pages, each of
\* which announced a next page, the second one requested with the cursor
\* of the first.
C30_Witness ==
  /\ job # None
  /\ Val(job).pc = "while"
  /\ Val(job).max_pages = Some(MaxPages)
  /\ Len(Val(job).requested) = MaxPages
  /\ Val(job).has_next_page
  /\ Val(job).requested[1] = None
  /\ Val(job).requested[2] = Val(job).pages[1].endCursor
  /\ Val(job).requested[2] # None
====
